---- MODULE Spec2Model ----
(***************************************************************************)
(* Model of lochness' file record store (lochness/models/files.py) and of  *)
(* the replication task (lochness/tasks/push_data.py).                     *)
(*                                                                         *)
(* The store holds three tables: files (one row per (file_path, file_md5), *)
(* with file_m_time and file_metadata.available_at), data_pull (which      *)
(* project/site a version belongs to) and data_push (one row per           *)
(* successful transfer to a data sink).  Producers record new versions;    *)
(* workers run push_all_data.                                              *)
(***************************************************************************)
EXTENDS Integers, Sequences, FiniteSets, TLC

VARIABLES
    files,      \* table files: [<<file_path, file_md5>> -> [m_time, available_at]]
    data_pull,  \* table data_pull: set of <<file_path, file_md5, scope>>
    data_push,  \* table data_push: set of <<data_sink_id, file_path, file_md5>>
    sinks,      \* table data_sinks: [id -> [type, is_active, scope]]
    produced,   \* number of versions recorded by producers so far
    runs,       \* number of push_all_data runs started so far
    pc,         \* per worker: position inside push_all_data
    w_sinks,    \* per worker: active_data_sinks still to process (sequence of ids)
    w_sink,     \* per worker: active_data_sink being processed (0: none)
    w_files,    \* per worker: files_to_push still to process (set of File objects)
    w_file,     \* per worker: file_obj being processed (NoFile: none)
    w_src,      \* per worker: source_result of resolve_file_source
    w_tmp,      \* per worker: what pull_file_from_source left on disk
    log,        \* per worker: the Logs row its latest step inserted (NoLog: none)
    q_in,       \* input of the pure operations under test (query/resolve specs)
    q_out,      \* their result
    disk,       \* per host and path: fingerprint of the bytes at the path ("": no file)
    sink_bytes, \* per sink and path: fingerprint of the bytes the sink holds ("": none)
    w_bytes     \* per worker: fingerprint of the bytes of the pulled temporary file

vars == <<files, data_pull, data_push, sinks, produced, runs, pc, w_sinks, w_sink,
          w_files, w_file, w_src, w_tmp, log, q_in, q_out, disk, sink_bytes, w_bytes>>

store_vars == <<files, data_pull, data_push, sinks>>
worker_vars == <<pc, w_sinks, w_sink, w_files, w_file, w_src, w_tmp, log>>
query_vars == <<q_in, q_out>>
bytes_vars == <<disk, sink_bytes, w_bytes>>

(***************************************************************************)
(* Bounds and finite universes.                                            *)
(***************************************************************************)
MaxProduce == 2
MaxRuns == 2

Workers == {"w1", "w2"}
Hosts == {"h1", "h2"}
Paths == {"p1", "p2"}
Md5s == {"F1", "F2"}
Times == {1, 2}
Scopes == {"A", "B"}
SinkIds == {1, 2, 3, 4}

\* The versions producers may record: path p1 on both hosts, with both contents and
\* modification times, in scope A, and once for scope B; path p2 once.
Productions ==
    ({"h1", "h2"} \X {"p1"} \X Md5s \X Times \X {"A"})
      \cup {<<"h1", "p1", "F2", 2, "B">>, <<"h1", "p2", "F1", 1, "A">>}

\* utils.get_hostname() of the machine a worker runs on
get_hostname(w) == IF w = "w1" THEN "h1" ELSE "h2"

Range(s) == {s[i] : i \in 1..Len(s)}

NoFile == [path |-> "", md5 |-> "", m_time |-> 0, available_at |-> <<>>]
NoLog == [event |-> "", sink |-> 0, path |-> "", md5 |-> "", info |-> <<>>]
NoSource == [source_type |-> "none", file_path |-> "", source_data_sink |-> 0,
             source_data_push |-> <<>>]

(***************************************************************************)
(* Location tokens.  The code builds them with f"hn:{hostname}" and        *)
(* f"ds:{data_sink_id}" and parses them back with split(":") and int().    *)
(* A token is modelled as <<prefix, text>>.                                *)
(***************************************************************************)
IntText == (1 :> "1") @@ (2 :> "2") @@ (3 :> "3") @@ (4 :> "4") @@ (9 :> "9")
ValueError == -1

\* str(data_sink_id) inside the f-string
IntToStr(n) == IntText[n]

\* int(text): the number, or ValueError when text is not a number
ParseInt(text) ==
    IF \E n \in DOMAIN IntText : IntText[n] = text
    THEN CHOOSE n \in DOMAIN IntText : IntText[n] = text
    ELSE ValueError

hostname_location(h) == <<"hn", h>>
ds_location(s) == <<"ds", IntToStr(s)>>

(***************************************************************************)
(* File Record Store: the SQL statements the models generate.  A statement *)
(* is a record; execute_queries applies a list of them to the tables.      *)
(***************************************************************************)

\* File.__init__: a File read from disk on host h is available at that host only
NewFile(p, f, t, h) ==
    [path |-> p, md5 |-> f, m_time |-> t, available_at |-> <<hostname_location(h)>>]

\* File.to_sql_query: INSERT ... ON CONFLICT (file_path, file_md5) DO UPDATE SET
\* file_m_time = excluded.file_m_time, file_metadata = excluded.file_metadata
to_sql_query(file_obj) ==
    [op |-> "upsert_file", path |-> file_obj.path, md5 |-> file_obj.md5,
     m_time |-> file_obj.m_time, available_at |-> file_obj.available_at]

\* File.remove_availability_query: UPDATE files SET available_at = (elements other
\* than location) WHERE file_path = path AND file_md5 != current_md5
\* AND available_at @> [location]
remove_availability_query(file_path, current_md5, location) ==
    [op |-> "remove_availability", path |-> file_path, md5 |-> current_md5,
     location |-> location]

\* Mutant of add_available_at_query: the location is put in front of the list
add_available_at_query_Prepend(file_obj, location) ==
    IF location \notin Range(file_obj.available_at)
    THEN LET updated == [file_obj EXCEPT !.available_at = <<location>> \o @]
         IN  [file_obj |-> updated,
              query |-> <<[op |-> "set_file_metadata", path |-> updated.path,
                           md5 |-> updated.md5,
                           available_at |-> updated.available_at]>>]
    ELSE [file_obj |-> file_obj, query |-> <<>>]

\* Mutant of add_available_at_query: the location is appended without looking
\* whether the list holds it
add_available_at_query_Always(file_obj, location) ==
    LET updated == [file_obj EXCEPT !.available_at = Append(@, location)]
    IN  [file_obj |-> updated,
         query |-> <<[op |-> "set_file_metadata", path |-> updated.path,
                      md5 |-> updated.md5,
                      available_at |-> updated.available_at]>>]

\* File.add_available_at_query: appends location to the File object's own copy of
\* available_at when absent and returns [file_obj, query]; the query rewrites
\* the row's whole file_metadata from that copy.  query = <<>> models "".
add_available_at_query(file_obj, location) ==
    IF location \notin Range(file_obj.available_at)
    THEN LET updated == [file_obj EXCEPT !.available_at = Append(@, location)]
         IN  [file_obj |-> updated,
              query |-> <<[op |-> "set_file_metadata", path |-> updated.path,
                           md5 |-> updated.md5,
                           available_at |-> updated.available_at]>>]
    ELSE [file_obj |-> file_obj, query |-> <<>>]

\* File.to_sql_queries_with_availability_update: first remove this host from the
\* other versions at the path, then upsert this version
to_sql_queries_with_availability_update(file_obj, h) ==
    <<remove_availability_query(file_obj.path, file_obj.md5, hostname_location(h)),
      to_sql_query(file_obj)>>

\* DataPush.to_sql_query: insert of the data_push row of a transfer
data_push_to_sql_query(sink_id, file_path, file_md5) ==
    [op |-> "insert_data_push", sink |-> sink_id, path |-> file_path, md5 |-> file_md5]

\* DataPull insert made by a producer together with the file record
data_pull_to_sql_query(file_path, file_md5, scope) ==
    [op |-> "insert_data_pull", path |-> file_path, md5 |-> file_md5, scope |-> scope]

\* Mutant of RemoveApplies: the WHERE clause without file_path = path
RemoveApplies_AnyPath(k, row, q) ==
    /\ k[2] # q.md5
    /\ q.location \in Range(row.available_at)

\* the WHERE clause of remove_availability_query: file_path = path AND
\* file_md5 != current_md5 AND available_at @> [location]
RemoveApplies(k, row, q) ==
    /\ k[1] = q.path
    /\ k[2] # q.md5
    /\ q.location \in Range(row.available_at)

\* Mutant of InsertDataPush: a plain INSERT; the key (data_sink_id, file_path,
\* file_md5) rejects a row that is already there and the statement fails
InsertDataPush_UniqueViolation(db, q) ==
    IF <<q.sink, q.path, q.md5>> \in db.data_push
    THEN [db EXCEPT !.error = TRUE]
    ELSE [db EXCEPT !.data_push = @ \cup {<<q.sink, q.path, q.md5>>}]

\* the data_push insert: a row that is already there is left as it is and the
\* statement succeeds
InsertDataPush(db, q) ==
    [db EXCEPT !.data_push = @ \cup {<<q.sink, q.path, q.md5>>}]

\* Mutant of UpsertFile: a plain INSERT; PRIMARY KEY (file_path, file_md5)
\* rejects a key that is already there and the statement fails
UpsertFile_PlainInsert(db, q) ==
    IF <<q.path, q.md5>> \in DOMAIN db.files
    THEN [db EXCEPT !.error = TRUE]
    ELSE [db EXCEPT !.files =
             (<<q.path, q.md5>> :> [m_time |-> q.m_time,
                                    available_at |-> q.available_at]) @@ @]

\* Mutant of UpsertFile: on conflict the new available_at is appended to the old
UpsertFile_Concat(db, q) ==
    [db EXCEPT !.files =
        (<<q.path, q.md5>> :>
            [m_time |-> q.m_time,
             available_at |-> IF <<q.path, q.md5>> \in DOMAIN db.files
                              THEN db.files[<<q.path, q.md5>>].available_at
                                     \o q.available_at
                              ELSE q.available_at]) @@ @]

\* the statement of to_sql_query on the table with PRIMARY KEY (file_path,
\* file_md5): the row is inserted, or on conflict its columns are set to the
\* new values, file_metadata included
UpsertFile(db, q) ==
    [db EXCEPT !.files =
        (<<q.path, q.md5>> :> [m_time |-> q.m_time,
                               available_at |-> q.available_at]) @@ @]

\* The effect of one statement on the tables db = [files, data_pull, data_push];
\* db.error tells that a statement of the transaction has failed
ApplyQuery(db, q) ==
    CASE q.op = "upsert_file" -> UpsertFile(db, q)
      [] q.op = "remove_availability" ->
           [db EXCEPT !.files =
               [k \in DOMAIN @ |->
                   IF RemoveApplies(k, @[k], q)
                   THEN [@[k] EXCEPT !.available_at =
                            SelectSeq(@, LAMBDA elem : elem # q.location)]
                   ELSE @[k]]]
      [] q.op = "set_file_metadata" ->
           [db EXCEPT !.files =
               [k \in DOMAIN @ |->
                   IF k = <<q.path, q.md5>>
                   THEN [@[k] EXCEPT !.available_at = q.available_at]
                   ELSE @[k]]]
      [] q.op = "insert_data_push" -> InsertDataPush(db, q)
      [] q.op = "insert_data_pull" ->
           [db EXCEPT !.data_pull = @ \cup {<<q.path, q.md5, q.scope>>}]

\* db.execute_queries: all statements in order, in one transaction
RECURSIVE execute_queries(_, _)
execute_queries(db, queries) ==
    IF queries = <<>> THEN db
    ELSE execute_queries(ApplyQuery(db, Head(queries)), Tail(queries))

Db == [files |-> files, data_pull |-> data_pull, data_push |-> data_push,
       error |-> FALSE]

Commit(db) ==
    /\ files' = db.files
    /\ data_pull' = db.data_pull
    /\ data_push' = db.data_push

(***************************************************************************)
(* File.get_files_to_push: the window query.  Inside the scope (the join   *)
(* with data_pull), ROW_NUMBER() numbers the versions of each path by      *)
(* file_m_time DESC; the rows with rn = 1 that have no data_push row for   *)
(* the sink are returned.  Equal file_m_time leaves the order to the       *)
(* database, so the query has a set of possible results.                   *)
(***************************************************************************)
FileObj(fs, k) ==
    [path |-> k[1], md5 |-> k[2], m_time |-> fs[k].m_time,
     available_at |-> fs[k].available_at]

\* rows of files joined with data_pull WHERE project_id/site_id match
ScopedRows(fs, pulls, scope) == {k \in DOMAIN fs : <<k[1], k[2], scope>> \in pulls}

\* Mutant of FirstRows: ORDER BY file_m_time ASC
FirstRows_Oldest(fs, rows, p) ==
    {k \in rows : k[1] = p /\ \A j \in rows : j[1] = p => fs[j].m_time >= fs[k].m_time}

\* the rows of a path that ORDER BY file_m_time DESC may number 1
FirstRows(fs, rows, p) ==
    {k \in rows : k[1] = p /\ \A j \in rows : j[1] = p => fs[j].m_time <= fs[k].m_time}

\* one possible assignment of rn = 1: one first row per path that has rows
RowNumberOne(fs, rows) ==
    LET ps == {k[1] : k \in rows}
    IN  {{c[p] : p \in ps} : c \in {c \in [ps -> rows] :
                                      \A p \in ps : c[p] \in FirstRows(fs, rows, p)}}

\* WHERE files.rn = 1 AND data_push.data_sink_id IS NULL
Unpushed(pushes, rn1, data_sink_id) ==
    {k \in rn1 : <<data_sink_id, k[1], k[2]>> \notin pushes}

\* Mutant of get_files_to_push: the pushed rows are taken out before the window
\* numbers the versions of a path
get_files_to_push_FilterFirst(fs, pulls, pushes, scope, data_sink_id) ==
    {{FileObj(fs, k) : k \in rn1} :
        rn1 \in RowNumberOne(fs, Unpushed(pushes, ScopedRows(fs, pulls, scope),
                                          data_sink_id))}

\* the possible results of get_files_to_push, each a set of File objects
get_files_to_push(fs, pulls, pushes, scope, data_sink_id) ==
    {{FileObj(fs, k) : k \in Unpushed(pushes, rn1, data_sink_id)} :
        rn1 \in RowNumberOne(fs, ScopedRows(fs, pulls, scope))}

(***************************************************************************)
(* resolve_file_source                                                     *)
(***************************************************************************)
\* the loop over available_at collecting data_sink_ids: "ds:" tokens whose id
\* parses and differs from the target, in list order
RECURSIVE CollectSinkIds(_, _)
CollectSinkIds(available_at, target_data_sink_id) ==
    IF available_at = <<>> THEN <<>>
    ELSE LET location == Head(available_at)
             rest == CollectSinkIds(Tail(available_at), target_data_sink_id)
             sink_id == ParseInt(location[2])
         IN  IF /\ location[1] = "ds"
                /\ sink_id # ValueError
                /\ sink_id # target_data_sink_id
             THEN <<sink_id>> \o rest
             ELSE rest

\* Mutant of ValidSource: is_active is not looked at
ValidSource_IgnoreActive(tbl, pushes, file_obj, sink_id) ==
    /\ sink_id \in DOMAIN tbl
    /\ <<sink_id, file_obj.path, file_obj.md5>> \in pushes

\* one iteration's test: the sink exists, is active and has the DataPush row
ValidSource(tbl, pushes, file_obj, sink_id) ==
    /\ sink_id \in DOMAIN tbl
    /\ tbl[sink_id].is_active
    /\ <<sink_id, file_obj.path, file_obj.md5>> \in pushes

\* the loop over data_sink_ids returning at the first valid source
RECURSIVE FirstValidSource(_, _, _, _)
FirstValidSource(tbl, pushes, file_obj, data_sink_ids) ==
    IF data_sink_ids = <<>> THEN 0
    ELSE IF ValidSource(tbl, pushes, file_obj, Head(data_sink_ids))
         THEN Head(data_sink_ids)
         ELSE FirstValidSource(tbl, pushes, file_obj, Tail(data_sink_ids))

\* Mutant of SourceLocal: a file on this host is skipped like one without source
SourceLocal_AsSkip(file_obj) ==
    [source_type |-> "skip", file_path |-> "", source_data_sink |-> 0,
     source_data_push |-> <<>>]

SourceLocal(file_obj) ==
    [source_type |-> "local", file_path |-> file_obj.path,
     source_data_sink |-> 0, source_data_push |-> <<>>]

SourceRemote(file_obj, found) ==
    [source_type |-> "remote", file_path |-> "", source_data_sink |-> found,
     source_data_push |-> <<found, file_obj.path, file_obj.md5>>]

SourceSkip ==
    [source_type |-> "skip", file_path |-> "", source_data_sink |-> 0,
     source_data_push |-> <<>>]

\* Mutant of resolve_file_source: the other sinks are tried before the local copy
resolve_file_source_RemoteFirst(file_obj, hostname, target_data_sink_id, tbl, pushes) ==
    LET found == FirstValidSource(tbl, pushes, file_obj,
                     CollectSinkIds(file_obj.available_at, target_data_sink_id))
    IN  IF found # 0 THEN SourceRemote(file_obj, found)
        ELSE IF hostname_location(hostname) \in Range(file_obj.available_at)
             THEN SourceLocal(file_obj)
             ELSE SourceSkip

\* Mutant of resolve_file_source: any "hn:" token counts as the local copy
resolve_file_source_AnyHost(file_obj, hostname, target_data_sink_id, tbl, pushes) ==
    IF \E i \in 1..Len(file_obj.available_at) : file_obj.available_at[i][1] = "hn"
    THEN SourceLocal(file_obj)
    ELSE LET found == FirstValidSource(tbl, pushes, file_obj,
                          CollectSinkIds(file_obj.available_at, target_data_sink_id))
         IN  IF found # 0 THEN SourceRemote(file_obj, found) ELSE SourceSkip

resolve_file_source(file_obj, hostname, target_data_sink_id, tbl, pushes) ==
    IF hostname_location(hostname) \in Range(file_obj.available_at)
    THEN SourceLocal(file_obj)
    ELSE LET found == FirstValidSource(tbl, pushes, file_obj,
                          CollectSinkIds(file_obj.available_at, target_data_sink_id))
         IN  IF found # 0 THEN SourceRemote(file_obj, found) ELSE SourceSkip

\* get_sink_instance: the handler for the sink's type, "" when there is none
get_sink_instance(sink_type) ==
    IF sink_type \in {"minio", "azure_blob", "filesystem"} THEN sink_type ELSE ""

\* get_matching_data_sink_list with project_id = site_id = None: every active sink
RECURSIVE SinkSeq(_, _)
SinkSeq(tbl, ids) ==
    IF ids = {} THEN <<>>
    ELSE LET m == CHOOSE i \in ids : \A j \in ids : i <= j
         IN  <<m>> \o SinkSeq(tbl, ids \ {m})

get_matching_data_sink_list(tbl) ==
    SinkSeq(tbl, {i \in DOMAIN tbl : tbl[i].is_active})

(***************************************************************************)
(* Initial state: an empty store, the configured data sinks, idle workers. *)
(* Sinks 1 and 2 serve scope A and have handlers; sinks 3 and 4 serve      *)
(* scope B: sink 3 has no 'type' in its metadata, sink 4 has a type        *)
(* without handler.                                                        *)
(***************************************************************************)
Sink(type, active, scope) == [type |-> type, is_active |-> active, scope |-> scope]

SinkTable ==
    (1 :> Sink("filesystem", TRUE, "A")) @@ (2 :> Sink("minio", TRUE, "A"))
      @@ (3 :> Sink("", TRUE, "B")) @@ (4 :> Sink("sftp", TRUE, "B"))

WorkerInit ==
    /\ pc = [w \in Workers |-> "idle"]
    /\ w_sinks = [w \in Workers |-> <<>>]
    /\ w_sink = [w \in Workers |-> 0]
    /\ w_files = [w \in Workers |-> {}]
    /\ w_file = [w \in Workers |-> NoFile]
    /\ w_src = [w \in Workers |-> NoSource]
    /\ w_tmp = [w \in Workers |-> "none"]
    /\ log = [w \in Workers |-> NoLog]

\* nothing has been written to a disk or to a sink yet
BytesInit ==
    /\ disk = [h \in Hosts |-> [p \in Paths |-> ""]]
    /\ sink_bytes = [s \in SinkIds |-> [p \in Paths |-> ""]]
    /\ w_bytes = [w \in Workers |-> ""]

Init ==
    /\ files = << >>
    /\ data_pull = {}
    /\ data_push = {}
    /\ sinks = SinkTable
    /\ produced = 0
    /\ runs = 0
    /\ WorkerInit
    /\ BytesInit
    /\ q_in = << >>
    /\ q_out = << >>

\* a Logs(...).insert row: the event, the data sink and, for the events whose
\* log_message holds a file_path, the File object it is written for (NoFile for
\* the others)
LogRow(event, sink, file_obj, info) ==
    [event |-> event, sink |-> sink, path |-> file_obj.path, md5 |-> file_obj.md5,
     info |-> info]

(***************************************************************************)
(* A producer on host h records version (p, f): the statements of          *)
(* to_sql_queries_with_availability_update and the data_pull row, in one   *)
(* transaction.                                                            *)
(***************************************************************************)
Produce(h, p, f, t, scope) ==
    /\ produced < MaxProduce
    /\ <<h, p, f, t, scope>> \in Productions
    /\ produced' = produced + 1
    /\ Commit(execute_queries(Db,
           to_sql_queries_with_availability_update(NewFile(p, f, t, h), h)
             \o <<data_pull_to_sql_query(p, f, scope)>>))
    /\ disk' = [disk EXCEPT ![h][p] = f]
    /\ UNCHANGED <<sinks, runs, worker_vars, query_vars, sink_bytes, w_bytes>>

(***************************************************************************)
(* push_all_data, one action per database or sink round trip.              *)
(***************************************************************************)
\* the start of push_all_data up to the loop over the sinks
StartRun(w) ==
    /\ pc[w] \in {"idle", "done", "aborted", "read_error", "killed"}
    /\ runs < MaxRuns
    /\ runs' = runs + 1
    /\ LET active_data_sinks == get_matching_data_sink_list(sinks)
       IN  /\ w_sinks' = [w_sinks EXCEPT ![w] = active_data_sinks]
           /\ pc' = [pc EXCEPT ![w] = IF active_data_sinks = <<>> THEN "done" ELSE "sinks"]
    /\ log' = [log EXCEPT ![w] = LogRow("data_push_start", 0, NoFile, <<>>)]
    /\ w_tmp' = [w_tmp EXCEPT ![w] = "none"]
    /\ w_bytes' = [w_bytes EXCEPT ![w] = ""]
    /\ UNCHANGED <<store_vars, produced, w_sink, w_files, w_file, w_src, query_vars,
                   disk, sink_bytes>>

\* the head of the loop over active_data_sinks: File.get_files_to_push
NextSink(w) ==
    /\ pc[w] = "sinks"
    /\ IF w_sinks[w] = <<>>
       THEN /\ pc' = [pc EXCEPT ![w] = "done"]
            /\ log' = [log EXCEPT ![w] = NoLog]
            /\ UNCHANGED <<w_sinks, w_sink, w_files>>
       ELSE LET data_sink_id == Head(w_sinks[w])
            IN  \E files_to_push \in get_files_to_push(files, data_pull, data_push,
                                        sinks[data_sink_id].scope, data_sink_id) :
                  /\ w_sinks' = [w_sinks EXCEPT ![w] = Tail(@)]
                  /\ IF files_to_push = {}
                     THEN /\ log' = [log EXCEPT ![w] = LogRow("data_push_no_files_to_push", data_sink_id,
                                        NoFile, <<>>)]
                          /\ UNCHANGED <<pc, w_sink, w_files>>
                     ELSE /\ log' = [log EXCEPT ![w] = LogRow("data_push_files_found_to_push", data_sink_id,
                                        NoFile, <<>>)]
                          /\ w_sink' = [w_sink EXCEPT ![w] = data_sink_id]
                          /\ w_files' = [w_files EXCEPT ![w] = files_to_push]
                          /\ pc' = [pc EXCEPT ![w] = "files"]
    /\ UNCHANGED <<store_vars, produced, runs, w_file, w_src, w_tmp, query_vars,
                   bytes_vars>>

\* the head of the loop over files_to_push: resolve_file_source and the skip case
NextFile(w) ==
    /\ pc[w] = "files"
    /\ IF w_files[w] = {}
       THEN /\ log' = [log EXCEPT ![w] = LogRow("data_push_complete", w_sink[w], NoFile, <<>>)]
            /\ pc' = [pc EXCEPT ![w] = "sinks"]
            /\ w_sink' = [w_sink EXCEPT ![w] = 0]
            /\ UNCHANGED <<w_files, w_file, w_src>>
       ELSE \E file_obj \in w_files[w] :
              LET source_result == resolve_file_source(file_obj, get_hostname(w),
                                       w_sink[w], sinks, data_push)
              IN  /\ w_files' = [w_files EXCEPT ![w] = @ \ {file_obj}]
                  /\ UNCHANGED w_sink
                  /\ IF source_result.source_type = "skip"
                     THEN /\ log' = [log EXCEPT ![w] = LogRow("data_push_file_skipped", w_sink[w], file_obj,
                                        file_obj.available_at)]
                          /\ UNCHANGED <<pc, w_file, w_src>>
                     ELSE /\ w_file' = [w_file EXCEPT ![w] = file_obj]
                          /\ w_src' = [w_src EXCEPT ![w] = source_result]
                          /\ pc' = [pc EXCEPT ![w] =
                                IF source_result.source_type = "local"
                                THEN "push" ELSE "pull"]
                          /\ log' = [log EXCEPT ![w] = NoLog]
    /\ UNCHANGED <<store_vars, produced, runs, w_sinks, w_tmp, query_vars, bytes_vars>>

\* pull_file_from_source and the pull-failure case of push_all_data
\* what sink_instance.pull can do: return the path of the pulled file, return
\* None, return a path at which nothing exists, or raise
SinkPullOutcomes == {"pulled", "none", "missing", "raise"}

\* Mutant of AfterPullFailure: the continue is missing
AfterPullFailure_NoContinue == "push"

\* where push_all_data goes on when pull_file_from_source returned None: the
\* failure is logged and the loop continues with the next file
AfterPullFailure == "files"

\* sink_instance.pull: the bytes the source sink holds for the file's name
SinkPull(held, data_sink_id, file_path) == held[data_sink_id][file_path]

PullFile(w) ==
    /\ pc[w] = "pull"
    /\ LET source_sink == w_src[w].source_data_sink
           failed == LogRow("data_push_remote_pull_failed", w_sink[w], w_file[w], <<>>)
       IN  IF get_sink_instance(sinks[source_sink].type) = ""
           THEN \* no pull handler: None before any temporary directory is made
                /\ log' = [log EXCEPT ![w] = failed]
                /\ pc' = [pc EXCEPT ![w] = AfterPullFailure]
                /\ w_file' = [w_file EXCEPT ![w] = NoFile]
                /\ w_src' = [w_src EXCEPT ![w] = NoSource]
                /\ UNCHANGED w_tmp
           ELSE \E outcome \in SinkPullOutcomes :
                  IF outcome = "pulled"
                  THEN /\ w_tmp' = [w_tmp EXCEPT ![w] = "file"]
                       /\ pc' = [pc EXCEPT ![w] = "push"]
                       /\ log' = [log EXCEPT ![w] = NoLog]
                       /\ UNCHANGED <<w_file, w_src>>
                  ELSE \* tempfile.mkdtemp ran, the pull gave nothing
                       /\ w_tmp' = [w_tmp EXCEPT ![w] = "dir"]
                       /\ log' = [log EXCEPT ![w] = failed]
                       /\ pc' = [pc EXCEPT ![w] = AfterPullFailure]
                       /\ w_file' = [w_file EXCEPT ![w] = NoFile]
                       /\ w_src' = [w_src EXCEPT ![w] = NoSource]
    /\ w_bytes' = [w_bytes EXCEPT ![w] =
                      IF w_tmp'[w] = "file"
                      THEN SinkPull(sink_bytes, w_src[w].source_data_sink, w_file[w].path)
                      ELSE ""]
    /\ UNCHANGED <<store_vars, produced, runs, w_sinks, w_sink, w_files, query_vars,
                   disk, sink_bytes>>

\* the finally block of push_all_data: remove the temporary directory when the
\* pulled file exists
Cleanup(tmp) == IF tmp = "file" THEN "none" ELSE tmp

\* the bytes push_file_to_sink hands to the sink's push: actual_file_path is the
\* pulled temporary file when there is one, file_obj.file_path on this host else
FileToPush(w) ==
    IF w_src[w].source_type = "remote" THEN w_bytes[w]
    ELSE disk[get_hostname(w)][w_file[w].path]

\* the sink after a push that succeeded: it holds the pushed bytes under the
\* file's name in place of what it held there
SinkPush(held, data_sink_id, file_path, bytes) ==
    [held EXCEPT ![data_sink_id][file_path] = bytes]

\* the pulled temporary file after the finally block
TmpBytesAfter(w) == [w_bytes EXCEPT ![w] = IF w_tmp'[w] = "file" THEN @ ELSE ""]

\* the end of one iteration of the loop over files_to_push
EndFile(w, next_pc) ==
    /\ pc' = [pc EXCEPT ![w] = next_pc]
    /\ w_tmp' = [w_tmp EXCEPT ![w] = Cleanup(@)]
    /\ w_file' = [w_file EXCEPT ![w] = NoFile]
    /\ w_src' = [w_src EXCEPT ![w] = NoSource]

\* what a sink's push can do: FilesystemSink.push returns a DataPush or raises
SinkPushOutcomes(sink_type) ==
    IF sink_type = "filesystem" THEN {"record", "raise"}
    ELSE {"record", "none", "raise"}

\* where push_all_data continues when push_file_to_sink raises: only
\* ModuleNotFoundError is caught inside, push_all_data has try/finally and no
\* except, so the error ends the run
AfterPushError == "aborted"

\* File.get_recent_data_pull and get_associated_data_source, the database reads
\* push_all_data makes between the pull and push_file_to_sink: they give the
\* push metadata or raise
LookupOutcomes == {"found", "raise"}

\* push_all_data from get_recent_data_pull on, and push_file_to_sink up to the
\* return of the sink's push.  An error of the reads is raised outside the
\* try/finally: it ends the run and the finally block does not run.
PushFile(w) ==
    /\ pc[w] = "push"
    /\ LET sink_type == sinks[w_sink[w]].type
       IN  \E lookup \in LookupOutcomes :
           IF lookup = "raise"
           THEN /\ pc' = [pc EXCEPT ![w] = "read_error"]
                /\ log' = [log EXCEPT ![w] = NoLog]
                /\ w_file' = [w_file EXCEPT ![w] = NoFile]
                /\ w_src' = [w_src EXCEPT ![w] = NoSource]
                /\ UNCHANGED w_tmp
           ELSE
           IF sink_type = ""
           THEN /\ log' = [log EXCEPT ![w] =
                      LogRow("data_push_missing_sink_type", w_sink[w], NoFile, <<>>)]
                /\ EndFile(w, "files")
           ELSE IF get_sink_instance(sink_type) = ""
           THEN /\ log' = [log EXCEPT ![w] =
                      LogRow("data_push_handler_not_found", w_sink[w], NoFile, <<>>)]
                /\ EndFile(w, "files")
           ELSE \E outcome \in SinkPushOutcomes(sink_type) :
                  CASE outcome = "record" ->
                         /\ pc' = [pc EXCEPT ![w] = "record"]
                         /\ log' = [log EXCEPT ![w] = NoLog]
                         /\ UNCHANGED <<w_tmp, w_file, w_src>>
                    [] outcome = "none" ->
                         /\ log' = [log EXCEPT ![w] =
                               LogRow("data_push_failed", w_sink[w], w_file[w], <<>>)]
                         /\ EndFile(w, "files")
                    [] outcome = "raise" ->
                         /\ EndFile(w, AfterPushError)
                         /\ log' = [log EXCEPT ![w] = NoLog]
    /\ sink_bytes' = IF pc'[w] = "record"
                     THEN SinkPush(sink_bytes, w_sink[w], w_file[w].path, FileToPush(w))
                     ELSE sink_bytes
    /\ w_bytes' = TmpBytesAfter(w)
    /\ UNCHANGED <<store_vars, produced, runs, w_sinks, w_sink, w_files, query_vars, disk>>

\* Mutant of PushQueries: the removal from the old versions is left out
PushQueries_NoRemove(file_obj, data_sink_id) ==
    <<data_push_to_sql_query(data_sink_id, file_obj.path, file_obj.md5)>>
      \o add_available_at_query(file_obj, ds_location(data_sink_id)).query

\* Mutant of PushQueries: the data_push row is not written
PushQueries_TokenOnly(file_obj, data_sink_id) ==
    <<remove_availability_query(file_obj.path, file_obj.md5, ds_location(data_sink_id))>>
      \o add_available_at_query(file_obj, ds_location(data_sink_id)).query

\* push_file_to_sink, if data_push: the statements of the recording transaction
PushQueries(file_obj, data_sink_id) ==
    LET location == ds_location(data_sink_id)
        added == add_available_at_query(file_obj, location)
    IN  <<data_push_to_sql_query(data_sink_id, file_obj.path, file_obj.md5),
          remove_availability_query(file_obj.path, file_obj.md5, location)>>
        \o added.query

\* push_file_to_sink after a successful sink push: the transaction, the success
\* log.  A failed transaction commits nothing and its error leaves
\* push_file_to_sink like an error of the sink's push.
RecordPush(w) ==
    /\ pc[w] = "record"
    /\ LET result == execute_queries(Db, PushQueries(w_file[w], w_sink[w]))
       IN  IF result.error
           THEN /\ UNCHANGED <<files, data_pull, data_push>>
                /\ log' = [log EXCEPT ![w] = NoLog]
                /\ EndFile(w, AfterPushError)
           ELSE /\ Commit(result)
                /\ log' = [log EXCEPT ![w] =
                      LogRow("data_push_success", w_sink[w], w_file[w], <<>>)]
                /\ EndFile(w, "files")
    /\ w_bytes' = TmpBytesAfter(w)
    /\ UNCHANGED <<sinks, produced, runs, w_sinks, w_sink, w_files, query_vars,
                   disk, sink_bytes>>

\* the worker process is killed: nothing it has not committed reaches the store
Kill(w) ==
    /\ pc[w] \in {"sinks", "files", "pull", "push", "record"}
    /\ pc' = [pc EXCEPT ![w] = "killed"]
    /\ w_sinks' = [w_sinks EXCEPT ![w] = <<>>]
    /\ w_sink' = [w_sink EXCEPT ![w] = 0]
    /\ w_files' = [w_files EXCEPT ![w] = {}]
    /\ w_file' = [w_file EXCEPT ![w] = NoFile]
    /\ w_src' = [w_src EXCEPT ![w] = NoSource]
    /\ log' = [log EXCEPT ![w] = NoLog]
    /\ UNCHANGED <<store_vars, produced, runs, w_tmp, query_vars, bytes_vars>>

Next ==
    \/ \E h \in Hosts, p \in Paths, f \in Md5s, t \in Times, scope \in Scopes :
          Produce(h, p, f, t, scope)
    \/ \E w \in Workers : StartRun(w)
    \/ \E w \in Workers : NextSink(w)
    \/ \E w \in Workers : NextFile(w)
    \/ \E w \in Workers : PullFile(w)
    \/ \E w \in Workers : PushFile(w)
    \/ \E w \in Workers : RecordPush(w)
    \/ \E w \in Workers : Kill(w)

Spec == Init /\ [][Next]_vars

(***************************************************************************)
(* resolve_file_source on its own: every available_at list of up to        *)
(* MaxAvail tokens over local and foreign hosts, existing, inactive,       *)
(* unknown and malformed sink tokens, against every set of DataPush rows.  *)
(***************************************************************************)
MaxAvail == 3

ResolveTokens ==
    {<<"hn", "h1">>, <<"hn", "h2">>, <<"ds", "1">>, <<"ds", "2">>, <<"ds", "3">>,
     <<"ds", "9">>, <<"ds", "x">>}

RECURSIVE SeqsUpTo(_, _)
SeqsUpTo(S, n) ==
    IF n = 0 THEN {<< >>}
    ELSE LET shorter == SeqsUpTo(S, n - 1)
         IN  shorter \cup {Append(q, x) : q \in shorter, x \in S}

\* sinks 1 and 2 exist, sink 3 exists and is inactive, sink 9 does not exist
ResolveTable(active1, active2) ==
    (1 :> Sink("filesystem", active1, "A")) @@ (2 :> Sink("minio", active2, "A"))
      @@ (3 :> Sink("filesystem", FALSE, "A"))

ResolveInputs ==
    [file_obj : {[path |-> "p1", md5 |-> "F1", m_time |-> 1, available_at |-> a] :
                    a \in SeqsUpTo(ResolveTokens, MaxAvail)},
     hostname : {"h1"},
     target : {1, 2},
     tbl : {ResolveTable(TRUE, a2) : a2 \in BOOLEAN},
     pushes : SUBSET {<<1, "p1", "F1">>, <<2, "p1", "F1">>, <<3, "p1", "F1">>}]

InitResolve ==
    /\ files = << >>
    /\ data_pull = {}
    /\ data_push = {}
    /\ sinks = SinkTable
    /\ produced = 0
    /\ runs = 0
    /\ WorkerInit
    /\ BytesInit
    /\ q_in \in ResolveInputs
    /\ q_out = << >>

Resolve ==
    /\ q_out = << >>
    /\ q_out' = resolve_file_source(q_in.file_obj, q_in.hostname, q_in.target,
                                    q_in.tbl, q_in.pushes)
    /\ UNCHANGED <<bytes_vars, store_vars, produced, runs, worker_vars, q_in>>

NextResolve == Resolve

SpecResolve == InitResolve /\ [][NextResolve]_vars

(***************************************************************************)
(* File.get_files_to_push on its own: every store of up to three versions  *)
(* (two of path p1, one of path p2), each in scope A, B or both and pushed *)
(* or not to sinks 1 and 2; the query is asked for sink 1.                 *)
(***************************************************************************)
QueryKeys == {<<"p1", "F1">>, <<"p1", "F2">>, <<"p2", "F1">>}

QueryStores ==
    {[files |-> [k \in present |-> [m_time |-> t[k], available_at |-> << >>]],
      data_pull |-> {<<k[1], k[2], sc>> : k \in present, sc \in Scopes} \cap pulls,
      data_push |-> pushes] :
        present \in SUBSET QueryKeys,
        t \in [QueryKeys -> Times],
        pulls \in SUBSET {<<k[1], k[2], sc>> : k \in QueryKeys, sc \in Scopes},
        pushes \in SUBSET {<<1, k[1], k[2]>> : k \in QueryKeys}}

QueryInputs == [db : QueryStores, scope : {"A"}, data_sink_id : {1}]

InitQuery ==
    /\ files = << >>
    /\ data_pull = {}
    /\ data_push = {}
    /\ sinks = SinkTable
    /\ produced = 0
    /\ runs = 0
    /\ WorkerInit
    /\ BytesInit
    /\ q_in \in QueryInputs
    /\ q_out = << >>

Query ==
    /\ q_out = << >>
    /\ \E result \in get_files_to_push(q_in.db.files, q_in.db.data_pull,
                         q_in.db.data_push, q_in.scope, q_in.data_sink_id) :
          q_out' = [files_to_push |-> result]
    /\ UNCHANGED <<bytes_vars, store_vars, produced, runs, worker_vars, q_in>>

NextQuery == Query

SpecQuery == InitQuery /\ [][NextQuery]_vars

(***************************************************************************)
(* Properties.                                                             *)
(***************************************************************************)
Avail(fs, k) == Range(fs[k].available_at)

\* versions of path k[1] other than k
Others(fs, k) == {j \in DOMAIN fs : j[1] = k[1] /\ j[2] # k[2]}

\* the recording transaction of worker w is visible in the next state as a whole
AllThreeVisible(w) ==
    LET s == w_sink[w]
        k == <<w_file[w].path, w_file[w].md5>>
    IN  /\ <<s, k[1], k[2]>> \in data_push'
        /\ \A j \in Others(files', k) : ds_location(s) \notin Avail(files', j)
        /\ k \in DOMAIN files'
        /\ ds_location(s) \in Avail(files', k)

\* C1: whenever a worker's step (a step of push_file_to_sink, or the worker being
\* killed at any point) changes the store, the data_push row, the removal of the
\* sink's token from the other versions of the path and the sink's token on the
\* pushed version are all visible afterwards; and no data_push row appears without
\* its sink token on the version, no sink token without its data_push row.
C1_AtomicRecord ==
    [][produced' = produced =>
         /\ \/ <<files, data_pull, data_push>>' = <<files, data_pull, data_push>>
            \/ \E w \in Workers : pc[w] = "record" /\ AllThreeVisible(w)
         /\ \A t \in data_push' \ data_push :
               /\ <<t[2], t[3]>> \in DOMAIN files'
               /\ ds_location(t[1]) \in Avail(files', <<t[2], t[3]>>)
         /\ \A k \in DOMAIN files', s \in SinkIds :
               (ds_location(s) \in Avail(files', k) /\ ds_location(s) \notin Avail(files, k))
                  => <<s, k[1], k[2]>> \in data_push']_vars

\* C1 witness: version k was recorded as pushed to s and holds the token, while
\* another version of the path that was pushed to s earlier has lost it
C1_Witness ==
    \E k \in DOMAIN files, s \in SinkIds :
       /\ <<s, k[1], k[2]>> \in data_push
       /\ ds_location(s) \in Avail(files, k)
       /\ \E j \in Others(files, k) :
             /\ <<s, j[1], j[2]>> \in data_push
             /\ ds_location(s) \notin Avail(files, j)

AllTokens == {hostname_location(h) : h \in Hosts} \cup {ds_location(s) : s \in SinkIds}

\* C2: for each path and each location token, at most one version of the path
\* lists the token in available_at
C2_OneVersionPerLocation ==
    \A p \in Paths, token \in AllTokens :
       Cardinality({k \in DOMAIN files : k[1] = p /\ token \in Avail(files, k)}) <= 1

\* the step in which worker w invokes the push of its target sink's handler
InvokesSinkPush(w) ==
    /\ PushFile(w)
    /\ pc'[w] # "read_error"
    /\ get_sink_instance(sinks[w_sink[w]].type) # ""

\* C3: the sink's push is never invoked for a (sink, path, md5) that has a
\* data_push row at the moment of the invocation
C3_NeverRepush ==
    [][\A w \in Workers :
          InvokesSinkPush(w) =>
             <<w_sink[w], w_file[w].path, w_file[w].md5>> \notin data_push]_vars

\* C4: a failure to push one file does not abort the batch: when a run of
\* push_all_data has ended by itself, no listed file and no sink is left unprocessed
C4_BatchContinues ==
    \A w \in Workers :
       pc[w] \in {"done", "aborted"} => (w_files[w] = {} /\ w_sinks[w] = << >>)

\* position i of available_at names a sink that may serve as pull source: a "ds:"
\* token whose id parses, is not the target, names an existing active sink, and
\* has a data_push row for this version
Qualifies(file_obj, target, tbl, pushes, i) ==
    LET loc == file_obj.available_at[i]
    IN  /\ loc[1] = "ds"
        /\ \E id \in DOMAIN tbl :
              /\ IntToStr(id) = loc[2]
              /\ id # target
              /\ tbl[id].is_active
              /\ <<id, file_obj.path, file_obj.md5>> \in pushes

HasNoSource(file_obj, hostname, target, tbl, pushes) ==
    /\ hostname_location(hostname) \notin Range(file_obj.available_at)
    /\ \A i \in 1..Len(file_obj.available_at) :
          ~Qualifies(file_obj, target, tbl, pushes, i)

\* C5: when available_at holds the worker's own host token, resolve_file_source
\* answers "local" with the file's own path and names no sink, whatever sink
\* tokens the list also holds and wherever they stand
C5_LocalFirst ==
    (q_out # << >> /\ hostname_location(q_in.hostname) \in Range(q_in.file_obj.available_at))
       => /\ q_out.source_type = "local"
          /\ q_out.file_path = q_in.file_obj.path
          /\ q_out.source_data_sink = 0
          /\ q_out.source_data_push = << >>

\* C5 witness: "local" was answered for a list in which a qualifying sink token
\* stands before the host token
C5_Witness ==
    /\ q_out # << >>
    /\ q_out.source_type = "local"
    /\ \E i, j \in 1..Len(q_in.file_obj.available_at) :
          /\ i < j
          /\ Qualifies(q_in.file_obj, q_in.target, q_in.tbl, q_in.pushes, i)
          /\ q_in.file_obj.available_at[j] = hostname_location(q_in.hostname)

\* C6: without the host token, resolve_file_source answers "remote" with sink S
\* exactly when S is the sink of the first qualifying position of available_at
C6_FirstQualifyingSink ==
    (q_out # << >> /\ hostname_location(q_in.hostname) \notin Range(q_in.file_obj.available_at))
       => LET f == q_in.file_obj
              Q(i) == Qualifies(f, q_in.target, q_in.tbl, q_in.pushes, i)
              First(S) == \E i \in 1..Len(f.available_at) :
                             /\ Q(i)
                             /\ f.available_at[i] = ds_location(S)
                             /\ \A j \in 1..(i - 1) : ~Q(j)
          IN  /\ q_out.source_type \in {"remote", "skip"}
              /\ \A S \in DOMAIN IntText :
                    (q_out.source_type = "remote" /\ q_out.source_data_sink = S)
                       <=> First(S)
              /\ q_out.source_type = "remote" =>
                    /\ q_out.source_data_sink # q_in.target
                    /\ q_out.source_data_sink \in DOMAIN q_in.tbl
                    /\ q_in.tbl[q_out.source_data_sink].is_active
                    /\ q_out.source_data_push = <<q_out.source_data_sink, f.path, f.md5>>
                    /\ q_out.source_data_push \in q_in.pushes

\* C6 witness: a sink was chosen whose token is not the first "ds:" token of the list
C6_Witness ==
    /\ q_out # << >>
    /\ q_out.source_type = "remote"
    /\ Len(q_in.file_obj.available_at) >= 2
    /\ q_in.file_obj.available_at[1][1] = "ds"
    /\ q_in.file_obj.available_at[1] # ds_location(q_out.source_data_sink)

\* C7: a listed file that has neither the worker's host token nor a qualifying sink
\* token is skipped: the skip is logged with the file's available_at, the run goes
\* on with the remaining files, nothing is pulled or pushed, the store is unchanged
C7_SkipWithoutSource ==
    [][\A w \in Workers : \A f \in w_files[w] :
          (/\ NextFile(w)
           /\ w_files'[w] = w_files[w] \ {f}
           /\ HasNoSource(f, get_hostname(w), w_sink[w], sinks, data_push))
             => /\ log'[w] = [event |-> "data_push_file_skipped", sink |-> w_sink[w],
                              path |-> f.path, md5 |-> f.md5, info |-> f.available_at]
                /\ pc'[w] = "files"
                /\ w_file'[w] = NoFile
                /\ w_src'[w] = NoSource
                /\ w_tmp' = w_tmp
                /\ <<files, data_pull, data_push>>' = <<files, data_pull, data_push>>]_vars

\* C7 witness: a worker has just skipped a version whose available_at is empty
C7_Witness ==
    \E w \in Workers :
       /\ log[w].event = "data_push_file_skipped"
       /\ log[w].info = << >>
       /\ pc[w] = "files"

\* C8: a version listed with available_at = [hn:h], pushed by a worker on host h:
\* the source was local, and the recording step leaves the data_push row and
\* available_at = [hn:h, ds:s]
C8_LocalPushRecorded ==
    [][\A w \in Workers :
          (RecordPush(w) /\ w_file[w].available_at = <<hostname_location(get_hostname(w))>>)
             => LET k == <<w_file[w].path, w_file[w].md5>>
                IN  /\ w_src[w].source_type = "local"
                    /\ <<w_sink[w], k[1], k[2]>> \in data_push'
                    /\ k \in DOMAIN files'
                    /\ files'[k].available_at =
                          <<hostname_location(get_hostname(w)), ds_location(w_sink[w])>>]_vars

\* C8 witness: a worker has just recorded a push and the version's list is
\* [hn:h, ds:s] for the worker's host and sink
C8_Witness ==
    \E w \in Workers :
       /\ log[w].event = "data_push_success"
       /\ <<log[w].sink, log[w].path, log[w].md5>> \in data_push
       /\ files[<<log[w].path, log[w].md5>>].available_at =
             <<hostname_location(get_hostname(w)), ds_location(log[w].sink)>>

\* C9: the recording step of a push of (p, f) to s puts ds:s on (p, f), takes ds:s
\* and nothing else from the other versions of p, and changes no row of another path
C9_PushFrame ==
    [][\A w \in Workers :
          RecordPush(w)
             => LET k == <<w_file[w].path, w_file[w].md5>>
                    loc == ds_location(w_sink[w])
                IN  /\ DOMAIN files' = DOMAIN files
                    /\ loc \in Avail(files', k)
                    /\ \A j \in DOMAIN files \ {k} :
                          IF j[1] = k[1]
                          THEN /\ files'[j].m_time = files[j].m_time
                               /\ files'[j].available_at =
                                     SelectSeq(files[j].available_at, LAMBDA e : e # loc)
                          ELSE files'[j] = files[j]]_vars

\* C9 witness: a version pushed to s after another version of its path holds ds:s;
\* the earlier version has lost ds:s and kept its other tokens
C9_Witness ==
    \E k \in DOMAIN files, s \in SinkIds :
       /\ <<s, k[1], k[2]>> \in data_push
       /\ ds_location(s) \in Avail(files, k)
       /\ \E j \in Others(files, k) :
             /\ <<s, j[1], j[2]>> \in data_push
             /\ ds_location(s) \notin Avail(files, j)
             /\ Avail(files, j) # {}

\* C10: get_files_to_push returns at most one version per path; each returned
\* version has no data_push row for the sink, and no version of its path inside
\* the scope has a greater modification time
C10_LatestUnpushedPerPath ==
    q_out # << >>
       => LET R == q_out.files_to_push
              db == q_in.db
              InScope(k) == <<k[1], k[2], q_in.scope>> \in db.data_pull
          IN  \A x \in R :
                 /\ \A y \in R : y.path = x.path => y = x
                 /\ <<x.path, x.md5>> \in DOMAIN db.files
                 /\ x.m_time = db.files[<<x.path, x.md5>>].m_time
                 /\ InScope(<<x.path, x.md5>>)
                 /\ <<q_in.data_sink_id, x.path, x.md5>> \notin db.data_push
                 /\ \A k \in DOMAIN db.files :
                       (k[1] = x.path /\ InScope(k)) => db.files[k].m_time <= x.m_time

\* C10 witness: one version per path was returned for two paths, and the returned
\* version of p1 is older than a version of p1 that lies outside the scope
C10_Witness ==
    /\ q_out # << >>
    /\ Cardinality(q_out.files_to_push) = 2
    /\ \E x \in q_out.files_to_push :
          \E k \in DOMAIN q_in.db.files :
             /\ k[1] = x.path
             /\ <<k[1], k[2], q_in.scope>> \notin q_in.db.data_pull
             /\ q_in.db.files[k].m_time > x.m_time

\* the (sink, path, md5) triple worker w is working on
Triple(w) == <<w_sink[w], w_file[w].path, w_file[w].md5>>

\* C11: every execution of the recording transaction succeeds, also when another
\* worker has already recorded the same (sink, path, md5): push_file_to_sink logs
\* data_push_success and returns, push_all_data goes on with its files, and the
\* triple is in data_push once, no other row added or lost
C11_IdempotentRecord ==
    [][\A w \in Workers :
          RecordPush(w) =>
             /\ pc'[w] = "files"
             /\ log'[w] = LogRow("data_push_success", w_sink[w], w_file[w], <<>>)
             /\ data_push' = data_push \cup {Triple(w)}
             /\ Cardinality({t \in data_push' : t = Triple(w)}) = 1]_vars

\* C11 witness: both workers have just recorded the same triple with success
C11_Witness ==
    /\ log["w1"].event = "data_push_success"
    /\ log["w2"] = log["w1"]
    /\ <<log["w1"].sink, log["w1"].path, log["w1"].md5>> \in data_push

\* the step in which the pull of worker w's file from its source sink fails
PullFails(w) ==
    /\ PullFile(w)
    /\ log'[w].event = "data_push_remote_pull_failed"

\* C12: when the pull of a file from its source sink fails, the step commits
\* nothing (no data_push row, no change of any available_at), the sink's push is
\* not invoked for the file (the worker is back at the head of the loop over the
\* files, the file taken off its list), the failure is logged, and the files still
\* listed stay listed for this run
C12_PullFailureSkipsFile ==
    [][\A w \in Workers :
          PullFails(w) =>
             /\ <<files, data_pull, data_push>>' = <<files, data_pull, data_push>>
             /\ pc'[w] = "files"
             /\ w_file'[w] = NoFile
             /\ w_file[w] \notin w_files'[w]
             /\ w_files'[w] = w_files[w]
             /\ w_sinks'[w] = w_sinks[w]
             /\ log'[w] = LogRow("data_push_remote_pull_failed", w_sink[w],
                                  w_file[w], <<>>)]_vars

\* C12 witness: a worker has just logged a failed pull of a file that is still
\* not recorded as pushed to the target sink, and is back in the loop over the files
C12_Witness ==
    \E w \in Workers :
       /\ log[w].event = "data_push_remote_pull_failed"
       /\ pc[w] = "files"
       /\ <<log[w].sink, log[w].path, log[w].md5>> \notin data_push

\* C13: whenever push_all_data is not in the middle of a file (it is at the head
\* of one of its loops, or the run has ended by itself), nothing that
\* pull_file_from_source created is left on disk
C13_TempDirRemoved ==
    \A w \in Workers :
       pc[w] \in {"sinks", "files", "done", "aborted", "read_error"}
          => w_tmp[w] = "none"

(***************************************************************************)
(* Chain resolver (lochness/helpers/delta.py).  The files table seen by    *)
(* resolve_delta_chain_from_db: for each file_md5 either no row (NoRow) or *)
(* the row's file_metadata with parent_md5 (None: the key is absent),      *)
(* delta and delta_format.                                                 *)
(***************************************************************************)
MaxChainLength == 4

ChainMd5s == {"F1", "F2", "F3"}
None == "None"

\* a delta is [enc, body]: enc tells how body (a patch text) is encoded;
\* NoDelta stands for an absent "delta" key
NoDelta == [enc |-> None, body |-> << >>]
NoRow == [parent_md5 |-> "NoRow", delta |-> NoDelta, delta_format |-> None]
RootRow == [parent_md5 |-> None, delta |-> NoDelta, delta_format |-> None]

\* the rows fingerprint m may have: a root, or a delta of its own against any
\* fingerprint (itself included), in either format or with the format key absent
ChainRows(m) ==
    {RootRow, NoRow}
      \cup [parent_md5 : ChainMd5s, delta : {[enc |-> "text", body |-> <<m>>]},
            delta_format : {"human_readable", None}]

ChainTables ==
    {tbl \in [ChainMd5s -> UNION {ChainRows(m) : m \in ChainMd5s}] :
        \A m \in ChainMd5s : tbl[m] \in ChainRows(m)}

\* metadata.get("delta")
DeltaOf(tbl, m) == tbl[m].delta

DeltaChainError(message) == [status |-> "DeltaChainError", message |-> message]

\* Mutant of ChainLink: a row without delta_format is taken as human readable
ChainLink_DefaultReadable(tbl, current_md5) ==
    [file_md5 |-> current_md5,
     delta |-> tbl[current_md5].delta,
     delta_format |-> IF tbl[current_md5].delta_format = None
                      THEN "human_readable" ELSE tbl[current_md5].delta_format]

\* chain.append({...}): the link of the row of current_md5;
\* metadata.get("delta_format", "compressed")
ChainLink(tbl, current_md5) ==
    [file_md5 |-> current_md5,
     delta |-> DeltaOf(tbl, current_md5),
     delta_format |-> IF tbl[current_md5].delta_format = None
                      THEN "compressed" ELSE tbl[current_md5].delta_format]

Reverse(q) == [i \in 1..Len(q) |-> q[Len(q) + 1 - i]]

\* Mutant of ChainOrder: the chain is returned as collected, target first
ChainOrder_AsCollected(chain) == chain

\* list(reversed(chain))
ChainOrder(chain) == Reverse(chain)

\* Mutant of InVisited: the visited set is never consulted
InVisited_Never(current_md5, visited) == FALSE

\* if current_md5 in visited
InVisited(current_md5, visited) == current_md5 \in visited

\* the while loop of resolve_delta_chain_from_db
RECURSIVE ChainWalk(_, _, _, _, _)
ChainWalk(tbl, current_md5, chain, visited, max_chain_length) ==
    IF ~(Len(chain) < max_chain_length)
    THEN DeltaChainError("exceeded maximum length")
    ELSE IF InVisited(current_md5, visited)
    THEN DeltaChainError("circular reference")
    ELSE IF tbl[current_md5] = NoRow
    THEN DeltaChainError("not found")
    ELSE IF tbl[current_md5].parent_md5 = None
    THEN [status |-> "ok", root_md5 |-> current_md5, chain |-> ChainOrder(chain)]
    ELSE ChainWalk(tbl, tbl[current_md5].parent_md5,
                   Append(chain, ChainLink(tbl, current_md5)),
                   visited \cup {current_md5}, max_chain_length)

resolve_delta_chain_from_db(tbl, target_md5, max_chain_length) ==
    ChainWalk(tbl, target_md5, << >>, {}, max_chain_length)

ChainInputs ==
    [tbl : ChainTables, target_md5 : ChainMd5s, max_chain_length : 1..MaxChainLength]

InitChain ==
    /\ files = << >>
    /\ data_pull = {}
    /\ data_push = {}
    /\ sinks = SinkTable
    /\ produced = 0
    /\ runs = 0
    /\ WorkerInit
    /\ BytesInit
    /\ q_in \in ChainInputs
    /\ q_out = << >>

ResolveChain ==
    /\ q_out = << >>
    /\ q_out' = resolve_delta_chain_from_db(q_in.tbl, q_in.target_md5,
                                            q_in.max_chain_length)
    /\ UNCHANGED <<bytes_vars, store_vars, produced, runs, worker_vars, q_in>>

NextChain == ResolveChain

SpecChain == InitChain /\ [][NextChain]_vars

(***************************************************************************)
(* Properties of the chain resolver, stated over the parent_md5 pointers.  *)
(***************************************************************************)
\* the fingerprint reached from m after i pointers; "end" past a root or a
\* fingerprint without row
RECURSIVE WalkNode(_, _, _)
WalkNode(tbl, m, i) ==
    IF i = 0 THEN m
    ELSE LET prev == WalkNode(tbl, m, i - 1)
         IN  IF prev \in ChainMd5s /\ tbl[prev] # NoRow /\ tbl[prev].parent_md5 # None
             THEN tbl[prev].parent_md5
             ELSE "end"

WalkSteps == 0..Cardinality(ChainMd5s)

\* the walk from m comes back to a fingerprint it has been at
Revisits(tbl, m) ==
    \E i, j \in WalkSteps :
       i < j /\ WalkNode(tbl, m, i) \in ChainMd5s
             /\ WalkNode(tbl, m, i) = WalkNode(tbl, m, j)

\* the number of different fingerprints on the walk from m
DistinctOnWalk(tbl, m) ==
    Cardinality({WalkNode(tbl, m, i) : i \in WalkSteps} \cap ChainMd5s)

\* the walk from m reaches a root after n pointers
RootAfter(tbl, m, n) ==
    LET r == WalkNode(tbl, m, n)
    IN  r \in ChainMd5s /\ tbl[r] # NoRow /\ tbl[r].parent_md5 = None

\* C14 as claimed: whenever the walk from the target revisits a fingerprint, the
\* result is the circular-reference error, whatever max_chain_length >= 1
C14_CycleAlwaysReported ==
    (q_out # << >> /\ Revisits(q_in.tbl, q_in.target_md5))
       => q_out = DeltaChainError("circular reference")

\* C14 amended: whenever the walk from the target revisits a fingerprint, the
\* result is a DeltaChainError, never a (root, chain); it is the
\* circular-reference error when the different fingerprints on the walk are
\* fewer than max_chain_length, and the exceeded-maximum-length error otherwise
C14_CycleNeverResolves ==
    (q_out # << >> /\ Revisits(q_in.tbl, q_in.target_md5))
       => /\ q_out.status = "DeltaChainError"
          /\ q_out = IF DistinctOnWalk(q_in.tbl, q_in.target_md5) < q_in.max_chain_length
                     THEN DeltaChainError("circular reference")
                     ELSE DeltaChainError("exceeded maximum length")

\* C14 witness: a walk over all three fingerprints that comes back to one of them
\* was reported as circular
C14_Witness ==
    /\ q_out = DeltaChainError("circular reference")
    /\ DistinctOnWalk(q_in.tbl, q_in.target_md5) = 3
    /\ Revisits(q_in.tbl, q_in.target_md5)

\* C15: for an acyclic chain of n links from the target to its root, the
\* resolution succeeds when n <= max_chain_length and gives the
\* exceeded-maximum-length error exactly when n > max_chain_length
C15_BoundOnLinks ==
    \A n \in WalkSteps :
       (q_out # << >> /\ RootAfter(q_in.tbl, q_in.target_md5, n))
          => /\ n <= q_in.max_chain_length => q_out.status = "ok"
             /\ n > q_in.max_chain_length
                   <=> q_out = DeltaChainError("exceeded maximum length")

\* C16: a successful resolution returns as root the first fingerprint on the walk
\* from the target that has no parent_md5, and as chain the fingerprints before
\* it on the walk, child of the root first and target last, each with the delta
\* and the delta_format of its own row
C16_RootAndChain ==
    (q_out # << >> /\ q_out.status = "ok")
       => \E n \in WalkSteps :
             /\ RootAfter(q_in.tbl, q_in.target_md5, n)
             /\ q_out.root_md5 = WalkNode(q_in.tbl, q_in.target_md5, n)
             /\ Len(q_out.chain) = n
             /\ \A i \in 1..n :
                   LET m == WalkNode(q_in.tbl, q_in.target_md5, n - i)
                   IN  /\ q_out.chain[i].file_md5 = m
                       /\ q_in.tbl[m].parent_md5 =
                             (IF i = 1 THEN q_out.root_md5
                              ELSE q_out.chain[i - 1].file_md5)
                       /\ q_out.chain[i].delta = DeltaOf(q_in.tbl, m)
                       /\ q_out.chain[i].delta_format \in
                             {q_in.tbl[m].delta_format, "compressed"} \ {None}
                       /\ q_in.tbl[m].delta_format # None
                             => q_out.chain[i].delta_format = q_in.tbl[m].delta_format

\* C16 witness: a chain of two links in two formats was resolved
C16_Witness ==
    /\ q_out # << >>
    /\ q_out.status = "ok"
    /\ Len(q_out.chain) = 2
    /\ q_out.chain[1].delta_format # q_out.chain[2].delta_format
    /\ q_out.chain[2].file_md5 = q_in.target_md5

(***************************************************************************)
(* Delta engine (lochness/helpers/delta.py) over diff_match_patch.         *)
(* A content is a sequence of characters.  A diff is a sequence of         *)
(* [op, text] with op " " (equal), "-" (delete), "+" (insert).  A patch is *)
(* [start1, start2, diffs]: its diffs with their context, to be found at   *)
(* start2 of the text it is applied to.  A patch text is the sequence of   *)
(* the lines of patch_toText: a header line per patch, then a line per     *)
(* diff.  The compact encoding wraps the patch text in zlib and base64.    *)
(***************************************************************************)
MaxLen == 2

Alphabet == {"a", "b"}
Contents == SeqsUpTo(Alphabet, MaxLen)

\* diff_match_patch().Patch_Margin, the characters of context around a change
Patch_Margin == 4

Min(a, b) == IF a < b THEN a ELSE b
Take(q, n) == SubSeq(q, 1, Min(n, Len(q)))
Drop(q, n) == SubSeq(q, n + 1, Len(q))
LastN(q, n) == SubSeq(q, Len(q) - Min(n, Len(q)) + 1, Len(q))

\* dmp.diff_commonPrefix, dmp.diff_commonSuffix: lengths
diff_commonPrefix(text1, text2) ==
    CHOOSE n \in 0..Min(Len(text1), Len(text2)) :
       /\ Take(text1, n) = Take(text2, n)
       /\ \A k \in (n + 1)..Min(Len(text1), Len(text2)) : Take(text1, k) # Take(text2, k)

diff_commonSuffix(text1, text2) ==
    CHOOSE n \in 0..Min(Len(text1), Len(text2)) :
       /\ LastN(text1, n) = LastN(text2, n)
       /\ \A k \in (n + 1)..Min(Len(text1), Len(text2)) : LastN(text1, k) # LastN(text2, k)

Diff(op, text) == IF text = << >> THEN << >> ELSE <<[op |-> op, text |-> text]>>

\* dmp.diff_main: equal texts give one equality (nothing for empty texts);
\* otherwise the common prefix, the deletion and the insertion of the middle,
\* the common suffix
diff_main(text1, text2) ==
    IF text1 = text2 THEN Diff(" ", text1)
    ELSE LET p == diff_commonPrefix(text1, text2)
             rest1 == Drop(text1, p)
             rest2 == Drop(text2, p)
             x == diff_commonSuffix(rest1, rest2)
         IN  Diff(" ", Take(text1, p))
               \o Diff("-", SubSeq(rest1, 1, Len(rest1) - x))
               \o Diff("+", SubSeq(rest2, 1, Len(rest2) - x))
               \o Diff(" ", LastN(rest1, x))

\* dmp.diff_cleanupEfficiency: rewrites short equalities that lie between two
\* edits; the diffs of diff_main above have none, and are left as they are
diff_cleanupEfficiency(diffs) == diffs

RECURSIVE DiffText(_, _)
\* dmp.diff_text1 (ops " " and "-") and dmp.diff_text2 (ops " " and "+")
DiffText(diffs, ops) ==
    IF diffs = << >> THEN << >>
    ELSE (IF Head(diffs).op \in ops THEN Head(diffs).text ELSE << >>)
           \o DiffText(Tail(diffs), ops)

diff_text1(diffs) == DiffText(diffs, {" ", "-"})
diff_text2(diffs) == DiffText(diffs, {" ", "+"})

\* dmp.patch_make(text1, diffs): no patch without an edit; otherwise one patch (the
\* equalities are shorter than 2 * Patch_Margin) holding the edits and up to
\* Patch_Margin characters of context on either side
patch_make(text1, diffs) ==
    IF \A i \in 1..Len(diffs) : diffs[i].op = " " THEN << >>
    ELSE LET before == IF diffs[1].op = " " THEN diffs[1].text ELSE << >>
             after == IF diffs[Len(diffs)].op = " " THEN diffs[Len(diffs)].text ELSE << >>
             edits == SelectSeq(diffs, LAMBDA d : d.op # " ")
             start == Len(before) - Len(LastN(before, Patch_Margin))
         IN  <<[start1 |-> start, start2 |-> start,
                diffs |-> Diff(" ", LastN(before, Patch_Margin)) \o edits
                            \o Diff(" ", Take(after, Patch_Margin))]>>

\* a line of a patch text: the header of a patch or one of its diffs
HeaderLine(patch) ==
    [op |-> "@@", text |-> << >>, start1 |-> patch.start1, start2 |-> patch.start2]
DiffLine(d) == [op |-> d.op, text |-> d.text, start1 |-> 0, start2 |-> 0]

\* dmp.patch_toText
RECURSIVE patch_toText(_)
patch_toText(patches) ==
    IF patches = << >> THEN << >>
    ELSE <<HeaderLine(Head(patches))>>
           \o [i \in 1..Len(Head(patches).diffs) |-> DiffLine(Head(patches).diffs[i])]
           \o patch_toText(Tail(patches))

\* the lines of a patch text up to the next header
RECURSIVE PatchBody(_)
PatchBody(lines) ==
    IF lines = << >> \/ Head(lines).op = "@@" THEN << >>
    ELSE <<Head(lines)>> \o PatchBody(Tail(lines))

\* dmp.patch_fromText: [error, patches]; error stands for ValueError (a text that
\* does not start with a header, a line with an unknown mode)
RECURSIVE patch_fromText(_)
patch_fromText(lines) ==
    IF lines = << >> THEN [error |-> FALSE, patches |-> << >>]
    ELSE IF Head(lines).op # "@@" THEN [error |-> TRUE, patches |-> << >>]
    ELSE LET body == PatchBody(Tail(lines))
             rest == patch_fromText(SubSeq(lines, Len(body) + 2, Len(lines)))
             patch == [start1 |-> Head(lines).start1, start2 |-> Head(lines).start2,
                       diffs |-> [i \in 1..Len(body) |->
                                    [op |-> body[i].op, text |-> body[i].text]]]
         IN  IF (\E i \in 1..Len(body) : body[i].op \notin {" ", "-", "+"}) \/ rest.error
             THEN [error |-> TRUE, patches |-> << >>]
             ELSE [error |-> FALSE, patches |-> <<patch>> \o rest.patches]

\* the human-readable delta: the patch text itself
PatchText(lines) == [enc |-> "text", body |-> lines]

\* base64.b64encode(zlib.compress(patch_text.encode("utf-8"), level=9))
CompressEncode(lines) == [enc |-> "b64zlib", body |-> lines]

\* what a string that is no patch text is: base64 that holds no zlib data, or no
\* base64 at all
PlainEncodings == {"b64", "not_base64"}

\* the encoding of base64.b64encode(zlib.compress(s)) for a string s of encoding enc
Wrapped(enc) == "b64zlib(" \o enc \o ")"

\* base64.b64decode and zlib.decompress of a delta: [error, patch_text]; whatever
\* is not the base64 of zlib data fails with ValueError or zlib.error
DecodeDecompress(delta) ==
    IF delta.enc = "b64zlib"
    THEN [error |-> FALSE, patch_text |-> PatchText(delta.body)]
    ELSE IF \E e \in PlainEncodings : delta.enc = Wrapped(e)
    THEN [error |-> FALSE,
          patch_text |-> [enc |-> CHOOSE e \in PlainEncodings : delta.enc = Wrapped(e),
                          body |-> delta.body]]
    ELSE [error |-> TRUE, patch_text |-> PatchText(<< >>)]

\* Mutant of compute_delta: the diff is taken from modified to original
compute_delta_Swapped(original_content, modified_content, human_readable) ==
    LET diffs == diff_cleanupEfficiency(diff_main(modified_content, original_content))
        patches == patch_make(modified_content, diffs)
        patch_text == patch_toText(patches)
    IN  IF human_readable THEN PatchText(patch_text) ELSE CompressEncode(patch_text)

\* compute_delta: the patch text of the diff from original to modified, as it
\* is or compressed and encoded
compute_delta(original_content, modified_content, human_readable) ==
    LET diffs == diff_cleanupEfficiency(diff_main(original_content, modified_content))
        patches == patch_make(original_content, diffs)
        patch_text == patch_toText(patches)
    IN  IF human_readable THEN PatchText(patch_text) ELSE CompressEncode(patch_text)

Ok(content) == [status |-> "ok", content |-> content]
DeltaPatchError(message) == [status |-> "DeltaPatchError", message |-> message]

\* the patch's text1 stands in text exactly at loc
MatchesAt(text, text1, loc) ==
    /\ loc >= 0
    /\ loc + Len(text1) <= Len(text)
    /\ SubSeq(text, loc + 1, loc + Len(text1)) = text1

\* dmp.patch_apply(patches, text): the set of (text, results) it can give.  A
\* patch whose text1 stands at the expected place is applied there.  Otherwise
\* the library's fuzzy match decides: the patch fails (text unchanged, flag
\* False) or is placed by approximation (some other text, flag True).
RECURSIVE patch_apply(_, _, _, _)
patch_apply(patches, text, delta, results) ==
    IF patches = << >> THEN {[text |-> text, results |-> results]}
    ELSE LET patch == Head(patches)
             expected_loc == patch.start2 + delta
             text1 == diff_text1(patch.diffs)
             text2 == diff_text2(patch.diffs)
         IN  IF MatchesAt(text, text1, expected_loc)
             THEN patch_apply(Tail(patches),
                              Take(text, expected_loc) \o text2
                                 \o Drop(text, expected_loc + Len(text1)),
                              delta, Append(results, TRUE))
             ELSE patch_apply(Tail(patches), text,
                              delta - (Len(text2) - Len(text1)),
                              Append(results, FALSE))
                    \cup UNION {patch_apply(Tail(patches), approx, delta,
                                            Append(results, TRUE)) :
                                   approx \in Contents \ {text}}

\* Mutant of AllApplied: one applied hunk is enough
AllApplied_Any(success_flags) ==
    success_flags = << >> \/ \E i \in 1..Len(success_flags) : success_flags[i]

\* all(success_flags)
AllApplied(success_flags) == \A i \in 1..Len(success_flags) : success_flags[i]

\* apply_delta: the set of outcomes, Ok(result) or a DeltaPatchError
apply_delta(original_content, delta, human_readable) ==
    LET decoded == IF human_readable
                   THEN [error |-> FALSE, patch_text |-> delta]
                   ELSE DecodeDecompress(delta)
        parsed == IF decoded.patch_text.enc = "text"
                  THEN patch_fromText(decoded.patch_text.body)
                  ELSE [error |-> TRUE, patches |-> << >>]
    IN  IF decoded.error THEN {DeltaPatchError("Failed to decode delta")}
        ELSE IF parsed.error THEN {DeltaPatchError("Invalid patch format")}
        ELSE {IF AllApplied(applied.results)
              THEN Ok(applied.text)
              ELSE DeltaPatchError("Failed to apply patch hunks") :
                 applied \in patch_apply(parsed.patches, original_content, 0, << >>)}

\* Mutant of LinkPosition: the position is the index of enumerate as it is
LinkPosition_ZeroBased(i) == i - 1

\* {i + 1} for the i of enumerate(chain): the i-th link of the chain is named i
LinkPosition(i) == i

\* DeltaChainError(f"Missing delta in chain at position {i + 1}, file_md5: ...")
MissingDeltaError(i, link) ==
    [status |-> "DeltaChainError", message |-> "Missing delta in chain",
     position |-> LinkPosition(i), file_md5 |-> link.file_md5]

\* DeltaPatchError(f"Failed to apply delta at chain position {i + 1}
\* (file_md5: {link['file_md5']}): {e}")
LinkPatchError(i, link, e) ==
    [status |-> "DeltaPatchError", message |-> "Failed to apply delta at chain position",
     position |-> LinkPosition(i), file_md5 |-> link.file_md5, cause |-> e.message]

\* Mutant of ChainPosition: the position is the index of enumerate as it is
ChainPosition_ZeroBased(k) == k - 1

\* {i + 1} for the i of enumerate(deltas): the k-th delta of the list is named k
ChainPosition(k) == k

\* DeltaPatchError(f"Failed to apply delta {i + 1}/{len(deltas)}: {e}")
DeltaPatchErrorInChain(k, deltas, e) ==
    [status |-> "DeltaPatchError", message |-> "Failed to apply delta",
     position |-> ChainPosition(k), of |-> Len(deltas), cause |-> e.message]

\* a call of apply_delta made by the loop: the delta it was made for and how it ended
ChainCall(k, r) == [index |-> k, outcome |-> r]

\* the loop of apply_delta_chain from the k-th delta on: the set of
\* [result, calls] it can end in, calls being the apply_delta calls made so far
RECURSIVE ApplyChainFrom(_, _, _, _, _)
ApplyChainFrom(current_content, deltas, k, human_readable, calls) ==
    IF k > Len(deltas) THEN {[result |-> Ok(current_content), calls |-> calls]}
    ELSE UNION {IF r.status = "ok"
                THEN ApplyChainFrom(r.content, deltas, k + 1, human_readable,
                                    Append(calls, ChainCall(k, r)))
                ELSE {[result |-> DeltaPatchErrorInChain(k, deltas, r),
                       calls |-> Append(calls, ChainCall(k, r))]} :
                   r \in apply_delta(current_content, deltas[k], human_readable)}

\* apply_delta_chain: the set of outcomes
apply_delta_chain(base_content, deltas, human_readable) ==
    {run.result : run \in ApplyChainFrom(base_content, deltas, 1, human_readable, << >>)}

\* Mutant of LinkHumanReadable: the format stored with the link is ignored
LinkHumanReadable_Never(link) == FALSE

\* human_readable = link.get("delta_format") == "human_readable"
LinkHumanReadable(link) == link.delta_format = "human_readable"

\* Mutant of RootResult: nothing is returned for a target without chain
RootResult_Empty(template_content) == Ok(<< >>)

\* if not chain: return template_content
RootResult(template_content) == Ok(template_content)

\* the loop of reconstruct_file_from_chain from link i on
RECURSIVE ReconstructFrom(_, _, _)
ReconstructFrom(current_content, chain, i) ==
    IF i > Len(chain) THEN {Ok(current_content)}
    ELSE IF chain[i].delta = NoDelta THEN {MissingDeltaError(i, chain[i])}
    ELSE UNION {IF r.status = "ok"
                THEN ReconstructFrom(r.content, chain, i + 1)
                ELSE {LinkPatchError(i, chain[i], r)} :
                   r \in apply_delta(current_content, chain[i].delta,
                                     LinkHumanReadable(chain[i]))}

\* reconstruct_file_from_chain: the set of outcomes
reconstruct_file_from_chain(tbl, target_md5, template_content, max_chain_length) ==
    LET resolved == resolve_delta_chain_from_db(tbl, target_md5, max_chain_length)
    IN  IF resolved.status # "ok" THEN {resolved}
        ELSE IF resolved.chain = << >> THEN {RootResult(template_content)}
        ELSE ReconstructFrom(template_content, resolved.chain, 1)

(***************************************************************************)
(* compute_delta and apply_delta on their own: a delta is computed from    *)
(* original to modified, or read from a file_metadata that holds something *)
(* else, and applied to a base with a format flag, both possibly wrong.    *)
(***************************************************************************)
NoResult == [status |-> "none"]

Line(op, text, start) == [op |-> op, text |-> text, start1 |-> start, start2 |-> start]

\* a patch text of two patches, each replacing one "a" by "b"
TwoHunks ==
    <<Line("@@", << >>, 0), Line("-", <<"a">>, 0), Line("+", <<"b">>, 0),
      Line("@@", << >>, 1), Line("-", <<"a">>, 0), Line("+", <<"b">>, 0)>>

\* deltas no compute_delta call made: not base64, base64 of something that is no
\* zlib stream, texts that are no patch text, and the two-patch text
StoredDeltas ==
    {[enc |-> "not_base64", body |-> << >>], [enc |-> "b64", body |-> << >>]}
      \cup {PatchText(TwoHunks), CompressEncode(TwoHunks)}
      \cup {PatchText(<<Line("?", <<"a">>, 0)>>),
            CompressEncode(<<Line("@@", << >>, 0), Line("?", <<"a">>, 0)>>)}

DeltaInputs ==
    [original : Contents, modified : Contents, base : Contents,
     human_readable : BOOLEAN, apply_as : BOOLEAN]

InitDelta ==
    /\ files = << >>
    /\ data_pull = {}
    /\ data_push = {}
    /\ sinks = SinkTable
    /\ produced = 0
    /\ runs = 0
    /\ WorkerInit
    /\ BytesInit
    /\ q_in \in DeltaInputs
    /\ q_out = << >>

ComputeDelta ==
    /\ q_out = << >>
    /\ q_out' = [stage |-> "delta",
                 delta |-> compute_delta(q_in.original, q_in.modified,
                                         q_in.human_readable),
                 result |-> NoResult]
    /\ UNCHANGED <<bytes_vars, store_vars, produced, runs, worker_vars, q_in>>

ReadStoredDelta ==
    /\ q_out = << >>
    /\ \E delta \in StoredDeltas :
          q_out' = [stage |-> "delta", delta |-> delta, result |-> NoResult]
    /\ UNCHANGED <<bytes_vars, store_vars, produced, runs, worker_vars, q_in>>

ApplyDelta ==
    /\ q_out # << >>
    /\ q_out.stage = "delta"
    /\ \E r \in apply_delta(q_in.base, q_out.delta, q_in.apply_as) :
          q_out' = [q_out EXCEPT !.stage = "applied", !.result = r]
    /\ UNCHANGED <<bytes_vars, store_vars, produced, runs, worker_vars, q_in>>

NextDelta == ComputeDelta \/ ReadStoredDelta \/ ApplyDelta

SpecDelta == InitDelta /\ [][NextDelta]_vars

\* C19: a delta computed from A to B in either encoding, applied to A with the
\* same encoding flag, gives B (A = B, empty A and empty B included)
C19_ApplyAfterCompute ==
    (/\ q_out # << >>
     /\ q_out.stage = "applied"
     /\ q_out.delta = compute_delta(q_in.original, q_in.modified, q_in.human_readable)
     /\ q_in.base = q_in.original
     /\ q_in.apply_as = q_in.human_readable)
       => q_out.result = Ok(q_in.modified)

\* C19 witness: a delta from a non-empty A to a different B was applied to A
C19_Witness ==
    /\ q_out # << >>
    /\ q_out.stage = "applied"
    /\ q_out.delta = compute_delta(q_in.original, q_in.modified, q_in.human_readable)
    /\ q_in.base = q_in.original
    /\ q_in.apply_as = q_in.human_readable
    /\ ~q_in.human_readable
    /\ q_in.original # << >>
    /\ q_in.modified # q_in.original
    /\ q_out.result = Ok(q_in.modified)

\* the delta of the state decodes under the flag it is applied with
Decodes == q_in.apply_as \/ ~DecodeDecompress(q_out.delta).error

\* the patch text the delta of the state holds under that flag
PatchTextOf == IF q_in.apply_as THEN q_out.delta ELSE DecodeDecompress(q_out.delta).patch_text

Parses == PatchTextOf.enc = "text" /\ ~patch_fromText(PatchTextOf.body).error

\* what patch_apply can give for the parsed patches on the base of the state
Applications == patch_apply(patch_fromText(PatchTextOf.body).patches, q_in.base, 0, << >>)

\* C20: apply_delta ends in DeltaPatchError when the compact delta does not decode
\* or decompress and when the patch text does not parse; it returns a content
\* only if the delta decoded and parsed and patch_apply gave that content with
\* every hunk applied; it never returns anything else than a content or a
\* DeltaPatchError
C20_AllHunksOrError ==
    (q_out # << >> /\ q_out.stage = "applied")
       => /\ q_out.result.status \in {"ok", "DeltaPatchError"}
          /\ ~Decodes => q_out.result.status = "DeltaPatchError"
          /\ (Decodes /\ ~Parses) => q_out.result.status = "DeltaPatchError"
          /\ q_out.result.status = "ok" =>
                /\ Decodes
                /\ Parses
                /\ \E applied \in Applications :
                      /\ applied.text = q_out.result.content
                      /\ \A i \in 1..Len(applied.results) : applied.results[i]
          /\ (Decodes /\ Parses
                /\ \A applied \in Applications :
                      \E i \in 1..Len(applied.results) : ~applied.results[i])
                => q_out.result.status = "DeltaPatchError"

\* C20 witness: of two parsed hunks the first applied and the second did not, and
\* apply_delta ended in DeltaPatchError
C20_Witness ==
    /\ q_out # << >>
    /\ q_out.stage = "applied"
    /\ Decodes
    /\ Parses
    /\ q_in.base = <<"a", "b">>
    /\ \E applied \in Applications : applied.results = <<TRUE, FALSE>>
    /\ q_out.result = DeltaPatchError("Failed to apply patch hunks")

(***************************************************************************)
(* reconstruct_file_from_chain on a stored chain: versions V0 .. Vn of one *)
(* file, of different content, the row of each Vi (i > 0) holding          *)
(* parent_md5 of V(i-1) and the metadata of create_file_metadata_with_delta *)
(* for compute_delta(V(i-1), Vi).                                          *)
(***************************************************************************)
MaxLinks == 3

\* max_chain_length: int = 100
DefaultMaxChainLength == 100

\* the fingerprints of the versions, by position in the chain
Md5Names == <<"F0", "F1", "F2", "F3", "F4", "F5">>

\* the contents a version may have
VersionContents ==
    {<< >>, <<"a">>, <<"b">>, <<"a", "a">>, <<"a", "b">>, <<"b", "a">>, <<"b", "b">>}

\* the sequences of 1 .. n + 1 different contents
RECURSIVE VersionChains(_)
VersionChains(n) ==
    IF n = 0 THEN {<<c>> : c \in VersionContents}
    ELSE LET shorter == VersionChains(n - 1)
         IN  shorter \cup {Append(q, c) : q \in {x \in shorter : Len(x) = n},
                                          c \in VersionContents}

DistinctChains == {q \in VersionChains(MaxLinks) :
                     \A i, j \in 1..Len(q) : i # j => q[i] # q[j]}

\* create_file_metadata_with_delta
create_file_metadata_with_delta(parent_md5, delta, human_readable) ==
    [parent_md5 |-> parent_md5, delta |-> delta,
     delta_format |-> IF human_readable THEN "human_readable" ELSE "compressed"]

\* the rows of the stored chain
StoredChain(versions, human_readable) ==
    [m \in {Md5Names[i] : i \in 1..Len(versions)} |->
        LET i == CHOOSE i \in 1..Len(versions) : Md5Names[i] = m
        IN  IF i = 1 THEN RootRow
            ELSE create_file_metadata_with_delta(
                     Md5Names[i - 1],
                     compute_delta(versions[i - 1], versions[i], human_readable),
                     human_readable)]

\* the target is the root or the last version; the template content is the root's
\* content, or any content when the target is the root itself
ReconInputs ==
    {[versions |-> v, human_readable |-> hr, target |-> t, template_content |-> c] :
        v \in DistinctChains, hr \in BOOLEAN, t \in 1..(MaxLinks + 1),
        c \in VersionContents}

InitRecon ==
    /\ files = << >>
    /\ data_pull = {}
    /\ data_push = {}
    /\ sinks = SinkTable
    /\ produced = 0
    /\ runs = 0
    /\ WorkerInit
    /\ BytesInit
    /\ q_in \in ReconInputs
    /\ q_in.target \in {1, Len(q_in.versions)}
    /\ q_in.template_content # q_in.versions[1] => q_in.target = 1
    /\ q_out = << >>

StoreChain ==
    /\ q_out = << >>
    /\ q_out' = [stage |-> "stored",
                 tbl |-> StoredChain(q_in.versions, q_in.human_readable),
                 result |-> NoResult]
    /\ UNCHANGED <<bytes_vars, store_vars, produced, runs, worker_vars, q_in>>

Reconstruct ==
    /\ q_out # << >>
    /\ q_out.stage = "stored"
    /\ \E r \in reconstruct_file_from_chain(q_out.tbl, Md5Names[q_in.target],
                      q_in.template_content, DefaultMaxChainLength) :
          q_out' = [q_out EXCEPT !.stage = "reconstructed", !.result = r]
    /\ UNCHANGED <<bytes_vars, store_vars, produced, runs, worker_vars, q_in>>

NextRecon == StoreChain \/ Reconstruct

SpecRecon == InitRecon /\ [][NextRecon]_vars

\* the deltas D1 .. Dn of the stored chain up to the target, root to target
ChainDeltas ==
    [i \in 1..(q_in.target - 1) |-> q_out.tbl[Md5Names[i + 1]].delta]

\* applying deltas i .. n one at a time with apply_delta
RECURSIVE OneAtATime(_, _, _, _)
OneAtATime(content, deltas, i, human_readable) ==
    IF i > Len(deltas) THEN {content}
    ELSE UNION {IF r.status = "ok"
                THEN OneAtATime(r.content, deltas, i + 1, human_readable)
                ELSE {r} :
                   r \in apply_delta(content, deltas[i], human_readable)}

C18_RootUnchanged ==
    (q_out # << >> /\ q_out.stage = "reconstructed" /\ q_in.target = 1)
       => q_out.result = Ok(q_in.template_content)

\* C18 witness: the root of a chain with stored deltas was reconstructed from a
\* template content that is not the root's content
C18_Witness ==
    /\ q_out # << >>
    /\ q_out.stage = "reconstructed"
    /\ q_in.target = 1
    /\ Len(q_in.versions) > 1
    /\ q_in.template_content # q_in.versions[1]
    /\ q_out.result = Ok(q_in.template_content)

(***************************************************************************)
(* apply_delta_chain on any list of deltas: deltas that were computed, the *)
(* stored ones that do not decode, do not parse or do not fit, in any      *)
(* order, applied to any base under either format flag.                    *)
(***************************************************************************)
MaxDeltas == 3

\* the deltas a list is made of
ListedDeltas ==
    StoredDeltas \cup {compute_delta(<<"a">>, <<"a", "a">>, hr) : hr \in BOOLEAN}

ApplyChainInputs ==
    [base_content : Contents, deltas : SeqsUpTo(ListedDeltas, MaxDeltas),
     human_readable : BOOLEAN]

InitApplyChain ==
    /\ files = << >>
    /\ data_pull = {}
    /\ data_push = {}
    /\ sinks = SinkTable
    /\ produced = 0
    /\ runs = 0
    /\ WorkerInit
    /\ BytesInit
    /\ q_in \in ApplyChainInputs
    /\ q_out = << >>

ApplyDeltaChain ==
    /\ q_out = << >>
    /\ \E run \in ApplyChainFrom(q_in.base_content, q_in.deltas, 1,
                                 q_in.human_readable, << >>) :
          q_out' = [stage |-> "chain_applied", result |-> run.result, calls |-> run.calls]
    /\ UNCHANGED <<bytes_vars, store_vars, produced, runs, worker_vars, q_in>>

NextApplyChain == ApplyDeltaChain

SpecApplyChain == InitApplyChain /\ [][NextApplyChain]_vars

\* the content the k-th call of the run was made on
ContentBefore(k) ==
    IF k = 1 THEN q_in.base_content ELSE q_out.calls[k - 1].outcome.content

\* C21: apply_delta_chain(base, []) returns base.  The calls of apply_delta are
\* made for the deltas in list order, each on the content the one before
\* returned.  When the k-th delta of the list (0-based index k - 1) is the first
\* whose call fails, the outcome is a DeltaPatchError naming position k, the
\* length of the list and the cause that call reported; no content is returned
\* and no call is made for a later delta.  When no call fails, every delta was
\* applied and the last content is returned.
C21_ChainFailsAtFirstError ==
    (q_out # << >> /\ q_out.stage = "chain_applied")
       => /\ q_in.deltas = << >> => (q_out.result = Ok(q_in.base_content) /\ q_out.calls = << >>)
          /\ \A k \in 1..Len(q_out.calls) :
                /\ q_out.calls[k].index = k
                /\ k <= Len(q_in.deltas)
                /\ q_out.calls[k].outcome
                      \in apply_delta(ContentBefore(k), q_in.deltas[k], q_in.human_readable)
                /\ k < Len(q_out.calls) => q_out.calls[k].outcome.status = "ok"
          /\ \A k \in 1..Len(q_out.calls) :
                q_out.calls[k].outcome.status # "ok"
                   => /\ Len(q_out.calls) = k
                      /\ q_out.result.status = "DeltaPatchError"
                      /\ q_out.result.position = k
                      /\ q_out.result.of = Len(q_in.deltas)
                      /\ q_out.result.cause = q_out.calls[k].outcome.message
                      /\ "content" \notin DOMAIN q_out.result
          /\ (\A k \in 1..Len(q_out.calls) : q_out.calls[k].outcome.status = "ok")
                => /\ Len(q_out.calls) = Len(q_in.deltas)
                   /\ q_out.result = Ok(ContentBefore(Len(q_in.deltas) + 1))

\* C21 witness: of three deltas the first applied and the second did not fit
\* its base; the error names position 2 of 3 and the third was not applied
C21_Witness ==
    /\ q_out # << >>
    /\ q_out.stage = "chain_applied"
    /\ Len(q_in.deltas) = 3
    /\ Len(q_out.calls) = 2
    /\ q_out.calls[1].outcome.status = "ok"
    /\ q_out.result.status = "DeltaPatchError"
    /\ q_out.result.position = 2
    /\ q_out.result.of = 3
    /\ q_out.result.cause = "Failed to apply patch hunks"

(***************************************************************************)
(* convert_delta_format.  Whether a string is "already compressed" is      *)
(* decided by base64.b64decode(delta.encode("ascii")), which is called     *)
(* without validate: it drops every character outside the base64 alphabet  *)
(* (A-Z a-z 0-9 + /) and raises binascii.Error, a ValueError, only when    *)
(* the number of characters left is no multiple of four.  The characters a *)
(* patch text holds are those patch_toText writes: per patch the header    *)
(* "@@ -coords1 +coords2 @@", per diff its sign and its text.              *)
(***************************************************************************)
\* str(n): the number of digits
Digits(n) == IF n < 10 THEN 1 ELSE 2

\* the digits of the coordinates of a patch header: "start,0" for length 0,
\* "start+1" for length 1, "start+1,length" otherwise
Coords(start, length) ==
    IF length = 0 THEN Digits(start) + 1
    ELSE IF length = 1 THEN Digits(start + 1)
    ELSE Digits(start + 1) + Digits(length)

\* the number of characters of a patch text that are in the base64 alphabet
RECURSIVE Base64DataChars(_)
Base64DataChars(lines) ==
    IF lines = << >> THEN 0
    ELSE (IF Head(lines).op = "@@"
          THEN LET body == PatchBody(Tail(lines))
               IN  Coords(Head(lines).start1, Len(DiffText(body, {" ", "-"})))
                     + 1 + Coords(Head(lines).start2, Len(DiffText(body, {" ", "+"})))
          ELSE (IF Head(lines).op = "+" THEN 1 ELSE 0) + Len(Head(lines).text))
           + Base64DataChars(Tail(lines))

\* base64.b64decode(delta.encode("ascii")) raises ValueError
B64DecodeRaises(delta) ==
    IF delta.enc = "text" THEN Base64DataChars(delta.body) % 4 # 0
    ELSE delta.enc = "not_base64"

\* Mutant of AlreadyCompressed: the delta is compressed whatever it is
AlreadyCompressed_Never(delta) == FALSE

\* try: base64.b64decode(...); return delta  # Already compressed
AlreadyCompressed(delta) == ~B64DecodeRaises(delta)

\* base64.b64encode(zlib.compress(delta.encode("utf-8"), level=9)) of any string
Compress(delta) ==
    IF delta.enc = "text" THEN CompressEncode(delta.body)
    ELSE [enc |-> Wrapped(delta.enc), body |-> delta.body]

convert_delta_format(delta, to_human_readable) ==
    IF to_human_readable
    THEN LET decoded == DecodeDecompress(delta)
         IN  IF decoded.error THEN delta ELSE decoded.patch_text
    ELSE IF AlreadyCompressed(delta) THEN delta ELSE Compress(delta)

(***************************************************************************)
(* A delta, computed from original to modified in one encoding or read     *)
(* from a file_metadata, is converted to a target encoding, once or again, *)
(* and applied to the original under the flag of the target.               *)
(***************************************************************************)
MaxConversions == 2

ConvertInputs ==
    [original : Contents, modified : Contents,
     human_readable : BOOLEAN, to_human_readable : BOOLEAN]

InitConvert ==
    /\ files = << >>
    /\ data_pull = {}
    /\ data_push = {}
    /\ sinks = SinkTable
    /\ produced = 0
    /\ runs = 0
    /\ WorkerInit
    /\ BytesInit
    /\ q_in \in ConvertInputs
    /\ q_out = << >>

\* history: the delta and what each conversion returned for the one before
ComputeToConvert ==
    /\ q_out = << >>
    /\ q_out' = [stage |-> "delta",
                 history |-> <<compute_delta(q_in.original, q_in.modified,
                                             q_in.human_readable)>>,
                 result |-> NoResult]
    /\ UNCHANGED <<bytes_vars, store_vars, produced, runs, worker_vars, q_in>>

ReadToConvert ==
    /\ q_out = << >>
    /\ \E delta \in StoredDeltas :
          q_out' = [stage |-> "delta", history |-> <<delta>>, result |-> NoResult]
    /\ UNCHANGED <<bytes_vars, store_vars, produced, runs, worker_vars, q_in>>

ConvertDeltaFormat ==
    /\ q_out # << >>
    /\ q_out.stage \in {"delta", "converted"}
    /\ Len(q_out.history) <= MaxConversions
    /\ q_out' = [q_out EXCEPT
                    !.stage = "converted",
                    !.history = Append(@, convert_delta_format(
                                              q_out.history[Len(q_out.history)],
                                              q_in.to_human_readable))]
    /\ UNCHANGED <<bytes_vars, store_vars, produced, runs, worker_vars, q_in>>

ApplyConverted ==
    /\ q_out # << >>
    /\ q_out.stage = "converted"
    /\ \E r \in apply_delta(q_in.original, q_out.history[Len(q_out.history)],
                            q_in.to_human_readable) :
          q_out' = [q_out EXCEPT !.stage = "applied", !.result = r]
    /\ UNCHANGED <<bytes_vars, store_vars, produced, runs, worker_vars, q_in>>

NextConvert == ComputeToConvert \/ ReadToConvert \/ ConvertDeltaFormat \/ ApplyConverted

SpecConvert == InitConvert /\ [][NextConvert]_vars

\* the delta of the state was computed by compute_delta in the encoding asked for
Computed ==
    q_out.history[1] = compute_delta(q_in.original, q_in.modified, q_in.human_readable)

\* C22: converting again to the same target returns what the first conversion
\* returned, and a computed delta that is already in the target encoding (a
\* compressed one with to_human_readable False, a human-readable one with
\* to_human_readable True) is returned as it is
C22_ConvertIdempotent ==
    (q_out # << >> /\ Len(q_out.history) >= 2)
       => /\ \A k \in 2..(Len(q_out.history) - 1) : q_out.history[k + 1] = q_out.history[k]
          /\ (Computed /\ q_in.human_readable = q_in.to_human_readable)
                => q_out.history[2] = q_out.history[1]

\* C22 witness: a human-readable delta of a change was converted to the
\* compressed encoding and what came out was converted again
C22_Witness ==
    /\ q_out # << >>
    /\ Len(q_out.history) = 3
    /\ Computed
    /\ q_in.human_readable
    /\ ~q_in.to_human_readable
    /\ q_out.history[2] = CompressEncode(q_out.history[1].body)
    /\ q_out.history[2] # q_out.history[1]
    /\ q_out.history[3] = q_out.history[2]

\* C23: a delta computed from A to B in one encoding, converted once to the
\* other encoding and applied to A under the flag of that encoding, gives B
\* (A = B included)
C23_ConvertRoundTrip ==
    (/\ q_out # << >>
     /\ q_out.stage = "applied"
     /\ Len(q_out.history) = 2
     /\ Computed
     /\ q_in.human_readable # q_in.to_human_readable)
       => q_out.result = Ok(q_in.modified)

(***************************************************************************)
(* The operations of File on the store, in any order: producers upsert     *)
(* versions (to_sql_query alone or behind the removal of                   *)
(* to_sql_queries_with_availability_update); a client reads a version into *)
(* a File object and later, from that object, adds a location or records a *)
(* push; locations are removed from the other versions of a path.  A       *)
(* client's File object may be older than the row it was read from.        *)
(* q_out is the count of operations and how the latest one ended.          *)
(***************************************************************************)
MaxOps == 4

StoreLocations ==
    {hostname_location(h) : h \in Hosts} \cup {ds_location(s) : s \in {1, 2}}

\* how an operation ended: the number of statements it executed, and whether
\* one of them failed
OpResult(op, statements, error) ==
    [ops |-> q_out.ops + 1, op |-> op, statements |-> statements, error |-> error]

InitStore ==
    /\ files = << >>
    /\ data_pull = {}
    /\ data_push = {}
    /\ sinks = SinkTable
    /\ produced = 0
    /\ runs = 0
    /\ WorkerInit
    /\ BytesInit
    /\ q_in = << >>
    /\ q_out = [ops |-> 0, op |-> "none", statements |-> 0, error |-> FALSE]

\* db.execute_queries of a list of statements: committed, or rolled back when a
\* statement failed
Execute(op, queries) ==
    LET result == execute_queries(Db, queries)
    IN  /\ IF result.error
           THEN UNCHANGED <<files, data_pull, data_push>>
           ELSE Commit(result)
        /\ q_out' = OpResult(op, Len(queries), result.error)

UpsertQueries(file_obj, h, with_update) ==
    IF with_update THEN to_sql_queries_with_availability_update(file_obj, h)
    ELSE <<to_sql_query(file_obj)>>

\* a producer on host h makes File(path) and executes its statements
Upsert(h, p, f, t, with_update) ==
    /\ q_out.ops < MaxOps
    /\ Execute("upsert", UpsertQueries(NewFile(p, f, t, h), h, with_update))
    /\ UNCHANGED <<bytes_vars, sinks, produced, runs, worker_vars, q_in>>

\* a client reads the row of a version into a File object
ReadFile(c, k) ==
    /\ q_out.ops < MaxOps
    /\ k \in DOMAIN files
    /\ w_file' = [w_file EXCEPT ![c] = FileObj(files, k)]
    /\ q_out' = OpResult("read", 0, FALSE)
    /\ UNCHANGED <<bytes_vars, store_vars, produced, runs, pc, w_sinks, w_sink, w_files, w_src,
                   w_tmp, log, q_in>>

\* file_obj.add_available_at_query(location) and the execution of what it returns
AddAvailability(c, location) ==
    /\ q_out.ops < MaxOps
    /\ w_file[c] # NoFile
    /\ LET added == add_available_at_query(w_file[c], location)
       IN  /\ w_file' = [w_file EXCEPT ![c] = added.file_obj]
           /\ Execute("add", added.query)
    /\ UNCHANGED <<bytes_vars, sinks, produced, runs, pc, w_sinks, w_sink, w_files, w_src,
                   w_tmp, log, q_in>>

\* File.remove_availability_query(file_path, current_md5, location), executed
RemoveAvailability(p, f, location) ==
    /\ q_out.ops < MaxOps
    /\ Execute("remove", <<remove_availability_query(p, f, location)>>)
    /\ UNCHANGED <<bytes_vars, sinks, produced, runs, worker_vars, q_in>>

\* the recording transaction of push_file_to_sink for the client's File object
RecordPushed(c, s) ==
    /\ q_out.ops < MaxOps
    /\ w_file[c] # NoFile
    /\ w_file' = [w_file EXCEPT ![c] =
                     add_available_at_query(@, ds_location(s)).file_obj]
    /\ Execute("push", PushQueries(w_file[c], s))
    /\ UNCHANGED <<bytes_vars, sinks, produced, runs, pc, w_sinks, w_sink, w_files, w_src,
                   w_tmp, log, q_in>>

NextStore ==
    \/ \E h \in Hosts, p \in Paths, f \in Md5s, t \in Times, with_update \in BOOLEAN :
          Upsert(h, p, f, t, with_update)
    \/ \E c \in Workers, k \in Paths \X Md5s : ReadFile(c, k)
    \/ \E c \in Workers, location \in StoreLocations : AddAvailability(c, location)
    \/ \E p \in Paths, f \in Md5s, location \in StoreLocations :
          RemoveAvailability(p, f, location)
    \/ \E c \in Workers, s \in {1, 2} : RecordPushed(c, s)

SpecStore == InitStore /\ [][NextStore]_vars

NoDuplicates(q) == \A i, j \in 1..Len(q) : i # j => q[i] # q[j]

\* C24: add_available_at_query on a File object whose available_at holds the
\* location returns no statement: nothing is executed, nothing fails, the
\* store and the object stay as they are.  The removal of a location leaves
\* every version that does not hold it as it is, and does not fail.  From any
\* state, adding a location twice gives the store and the object that adding
\* it once gives, and removing twice the store that removing once gives.
C24_AvailabilityIdempotent ==
    /\ [](\A c \in Workers, location \in StoreLocations :
             w_file[c] # NoFile =>
                LET once == add_available_at_query(w_file[c], location)
                    db1 == execute_queries(Db, once.query)
                    again == add_available_at_query(once.file_obj, location)
                IN  /\ again.query = << >>
                    /\ again.file_obj = once.file_obj
                    /\ ~db1.error
                    /\ execute_queries(db1, again.query) = db1)
    /\ [](\A p \in Paths, f \in Md5s, location \in StoreLocations :
             LET q == <<remove_availability_query(p, f, location)>>
                 db1 == execute_queries(Db, q)
             IN  ~db1.error /\ execute_queries(db1, q) = db1)
    /\ [][/\ \A c \in Workers, location \in StoreLocations :
               (AddAvailability(c, location)
                  /\ location \in Range(w_file[c].available_at))
                  => /\ q_out'.statements = 0
                     /\ ~q_out'.error
                     /\ files' = files
                     /\ w_file' = w_file
          /\ \A p \in Paths, f \in Md5s, location \in StoreLocations :
               RemoveAvailability(p, f, location)
                  => /\ ~q_out'.error
                     /\ DOMAIN files' = DOMAIN files
                     /\ \A k \in DOMAIN files :
                           location \notin Avail(files, k) => files'[k] = files[k]]_vars

\* C24 witness: a location was added to a version through a File object and then
\* added again through the same object, which executed nothing
C24_Witness ==
    /\ q_out.op = "add"
    /\ q_out.statements = 0
    /\ q_out.ops = 4
    /\ \E c \in Workers :
          /\ w_file[c] # NoFile
          /\ Len(w_file[c].available_at) = 2
          /\ files[<<w_file[c].path, w_file[c].md5>>].available_at = w_file[c].available_at

\* C25: no version's available_at holds the same location twice, after any
\* sequence of upserts, adds, removals and recorded pushes, made from File
\* objects however old
C25_NoDuplicateTokens ==
    \A k \in DOMAIN files : NoDuplicates(files[k].available_at)

\* C25 witness: a version holds three locations after an add and a recorded push
C25_Witness ==
    /\ q_out.op = "push"
    /\ \E k \in DOMAIN files :
          /\ Len(files[k].available_at) = 3
          /\ \E s \in {1, 2} : <<s, k[1], k[2]>> \in data_push

\* C26: an upsert never fails, leaves the row of its (file_path, file_md5) with the
\* values of the File it was made from and adds no row when the key is there
\* already; from any state, executing to_sql_query a second time changes nothing
C26_UpsertIdempotent ==
    /\ [](\A h \in Hosts, p \in Paths, f \in Md5s, t \in Times :
             LET q == <<to_sql_query(NewFile(p, f, t, h))>>
                 db1 == execute_queries(Db, q)
             IN  ~db1.error /\ execute_queries(db1, q) = db1)
    /\ [][\A h \in Hosts, p \in Paths, f \in Md5s, t \in Times, with_update \in BOOLEAN :
             Upsert(h, p, f, t, with_update)
                => /\ ~q_out'.error
                   /\ <<p, f>> \in DOMAIN files'
                   /\ FileObj(files', <<p, f>>) = NewFile(p, f, t, h)
                   /\ DOMAIN files' = DOMAIN files \cup {<<p, f>>}]_vars

\* C26 witness: a version that was pushed to sink 1 has been upserted again
C26_Witness ==
    /\ q_out.op = "upsert"
    /\ q_out.ops = 4
    /\ ~q_out.error
    /\ \E k \in DOMAIN files :
          /\ <<1, k[1], k[2]>> \in data_push
          /\ Len(files[k].available_at) = 1

\* C27: the available_at of an existing version changes only by the add and the
\* removal of locations: a producer's upsert of a (path, md5) that has a row
\* leaves the row's available_at as it is, and no step of push_all_data other
\* than the recording transaction of a successful push changes the files table
C27_OnlyAddRemoveMutate ==
    [][/\ \A h \in Hosts, p \in Paths, f \in Md5s, t \in Times, scope \in Scopes :
            (Produce(h, p, f, t, scope) /\ <<p, f>> \in DOMAIN files)
               => files'[<<p, f>>].available_at = files[<<p, f>>].available_at
       /\ (produced' = produced /\ \A w \in Workers : pc[w] # "record")
            => files' = files]_vars

\* C30: when the recording transaction of a worker commits for a version that
\* another worker has recorded as pushed to another sink since this worker read
\* it, the version afterwards holds the other sink's location, this sink's
\* location and every location it held before
C30_NoTokenLost ==
    [][\A w \in Workers :
          LET k == <<w_file[w].path, w_file[w].md5>>
          IN  (/\ RecordPush(w)
               /\ log'[w].event = "data_push_success"
               /\ \E s \in SinkIds \ {w_sink[w]} :
                     /\ <<s, k[1], k[2]>> \in data_push
                     /\ ds_location(s) \in Avail(files, k)
                     /\ ds_location(s) \notin Range(w_file[w].available_at))
                 => /\ Avail(files, k) \subseteq Avail(files', k)
                    /\ ds_location(w_sink[w]) \in Avail(files', k)]_vars

\* the events whose Logs row tells the outcome of one file
FileOutcomeEvents ==
    {"data_push_success", "data_push_file_skipped", "data_push_remote_pull_failed",
     "data_push_failed"}

\* C29: in a run of push_all_data that goes on, the step that ends the processing
\* of a listed file (it is skipped, its pull fails, its push fails or it is
\* recorded as pushed) inserts a Logs row with one of the outcome events that
\* names the file; a listed file is taken from the list once
C29_EveryFileAttributed ==
    [][\A w \in Workers :
          /\ (pc[w] = "files" /\ pc'[w] = "files" /\ w_files'[w] # w_files[w])
                => \E file_obj \in w_files[w] :
                      /\ w_files'[w] = w_files[w] \ {file_obj}
                      /\ log'[w].event = "data_push_file_skipped"
                      /\ log'[w].path = file_obj.path
                      /\ log'[w].md5 = file_obj.md5
          /\ (pc[w] \in {"pull", "push", "record"} /\ pc'[w] = "files")
                => /\ log'[w].event \in FileOutcomeEvents
                   /\ log'[w].path = w_file[w].path
                   /\ log'[w].md5 = w_file[w].md5
                   /\ w_file[w] \notin w_files'[w]]_vars

(***************************************************************************)
(* Runs of push_all_data in which nothing fails on the way: the database   *)
(* reads answer, a sink's push returns its DataPush, no worker is killed.  *)
(* A run that has started goes on step by step: the process executes its   *)
(* loops to the end.                                                       *)
(***************************************************************************)
\* push_file_to_sink up to the sink's push, which succeeds where the sink has a
\* handler
PushSucceeds(w) ==
    /\ PushFile(w)
    /\ pc'[w] \in {"record", "files"}
    /\ log'[w].event # "data_push_failed"

RunStep(w) ==
    NextSink(w) \/ NextFile(w) \/ PullFile(w) \/ PushSucceeds(w) \/ RecordPush(w)

NextRetry ==
    \/ \E h \in Hosts, p \in Paths, f \in Md5s, t \in Times, scope \in Scopes :
          Produce(h, p, f, t, scope)
    \/ \E w \in Workers : StartRun(w)
    \/ \E w \in Workers : NextSink(w)
    \/ \E w \in Workers : NextFile(w)
    \/ \E w \in Workers : PullFile(w)
    \/ \E w \in Workers : PushSucceeds(w)
    \/ \E w \in Workers : RecordPush(w)

SpecRetry ==
    Init /\ [][NextRetry]_vars /\ \A w \in Workers : WF_vars(RunStep(w))

\* version k is, whatever the database's order of equal times, in the result of
\* get_files_to_push for sink s: the most recent of its path in the sink's scope
\* and without data_push row for s
Listed(k, s) ==
    /\ k \in DOMAIN files
    /\ \A files_to_push \in get_files_to_push(files, data_pull, data_push,
                                              sinks[s].scope, s) :
          FileObj(files, k) \in files_to_push

\* the latest Logs row of worker v is the skip of version k for sink s
SkippedBy(v, k, s) ==
    /\ log[v].event = "data_push_file_skipped"
    /\ log[v].sink = s
    /\ <<log[v].path, log[v].md5>> = k

\* version k is recorded as pushed to sink s and holds the sink's location
Recorded(k, s) ==
    /\ <<s, k[1], k[2]>> \in data_push
    /\ k \in DOMAIN files
    /\ ds_location(s) \in Avail(files, k)

\* the active sinks that have a handler, and the version the retry is followed for
\* (the versions of p1 differ by name only)
RetrySinks ==
    {s \in SinkIds : SinkTable[s].is_active /\ get_sink_instance(SinkTable[s].type) # ""}
RetryVersions == {<<"p1", "F1">>}

\* C28: when version k is listed for an active sink s that has a handler, holds
\* the location of host h1, has just been skipped by the worker on h2, and a run
\* of push_all_data on h1 has sink s still before it, then eventually k is
\* recorded as pushed to s and holds ds:s, unless producers end the premise
\* before (k is no longer the listed version or no longer holds hn:h1)
C28_SkipThenPush ==
    \A k \in RetryVersions, s \in RetrySinks :
       (/\ Listed(k, s)
        /\ hostname_location("h1") \in Avail(files, k)
        /\ SkippedBy("w2", k, s)
        /\ pc["w1"] = "sinks"
        /\ s \in Range(w_sinks["w1"]))
          ~> (\/ Recorded(k, s)
              \/ ~Listed(k, s)
              \/ hostname_location("h1") \notin Avail(files, k))

\* C28 witness: the version the worker on h2 has skipped for sink s has been
\* pushed to s by the worker on h1
C28_Witness ==
    \E k \in RetryVersions, s \in RetrySinks :
       /\ SkippedBy("w2", k, s)
       /\ log["w1"].event = "data_push_success"
       /\ log["w1"].sink = s
       /\ <<log["w1"].path, log["w1"].md5>> = k
       /\ Recorded(k, s)
       /\ files[k].available_at = <<hostname_location("h1"), ds_location(s)>>

\* C31: push_file_to_sink invokes the sink's push (the step from "push" that
\* gets the sink's answer) only for a file whose (sink, path, md5) has no
\* data_push row
C31_PushOnlyUnrecorded ==
    [][\A w \in Workers :
          (/\ pc[w] = "push"
           /\ get_sink_instance(sinks[w_sink[w]].type) # ""
           /\ (pc'[w] = "record" \/ log'[w].event = "data_push_failed"))
             => <<w_sink[w], w_file[w].path, w_file[w].md5>> \notin data_push]_vars

\* the versions of path p inside the scope of the query that no other version of
\* p inside the scope is newer than
LatestInScope(db, scope, p) ==
    LET rows == {k \in DOMAIN db.files : k[1] = p /\ <<k[1], k[2], scope>> \in db.data_pull}
    IN  {k \in rows : \A j \in rows : db.files[j].m_time <= db.files[k].m_time}

\* C32: when the most recent version of a path inside the scope (every one of
\* them, where several have the greatest modification time) has a data_push row
\* for the sink, get_files_to_push returns no version of that path
C32_PushedLatestHidesPath ==
    q_out # << >>
       => \A p \in Paths :
             LET latest == LatestInScope(q_in.db, q_in.scope, p)
             IN  (/\ latest # {}
                  /\ \A k \in latest : <<q_in.data_sink_id, k[1], k[2]>> \in q_in.db.data_push)
                    => \A x \in q_out.files_to_push : x.path # p

\* C32 witness: the newer version of p1 is pushed, the older one is inside the
\* scope and not pushed, and the result holds p2 only
C32_Witness ==
    /\ q_out # << >>
    /\ LatestInScope(q_in.db, q_in.scope, "p1") = {<<"p1", "F2">>}
    /\ <<"p1", "F1", q_in.scope>> \in q_in.db.data_pull
    /\ <<"p1", "F1">> \in DOMAIN q_in.db.files
    /\ q_in.db.data_push = {<<q_in.data_sink_id, "p1", "F2">>}
    /\ {x.path : x \in q_out.files_to_push} = {"p2"}

\* C33: for every data_push row (s, p, f) some version of path p holds ds:s in
\* its available_at
C33_PushRecordHasToken ==
    \A t \in data_push :
       \E k \in DOMAIN files : k[1] = t[2] /\ ds_location(t[1]) \in Avail(files, k)

\* C34: a version holds ds:s in its available_at only if the data_push row
\* (s, path, md5) exists
C34_TokenHasPushRecord ==
    \A k \in DOMAIN files, s \in SinkIds :
       ds_location(s) \in Avail(files, k) => <<s, k[1], k[2]>> \in data_push

\* C34 witness: a version holds the tokens of two sinks, and an older version of
\* its path that was pushed before holds a sink token again or still
C34_Witness ==
    \E k \in DOMAIN files :
       /\ {ds_location(1), ds_location(2)} \subseteq Avail(files, k)
       /\ \E j \in Others(files, k), s \in SinkIds : <<s, j[1], j[2]>> \in data_push

\* no run of push_all_data is between its start and its end
NoPushInProgress ==
    \A w \in Workers : pc[w] \in {"idle", "done", "aborted", "read_error", "killed"}

\* C35: when no push is in progress and get_files_to_push returns nothing for
\* an active sink s, every version inside the sink's scope that holds ds:s is
\* the most recent version of its path inside the scope
C35_ConvergesToLatest ==
    \A s \in Range(get_matching_data_sink_list(sinks)) :
       (/\ NoPushInProgress
        /\ get_files_to_push(files, data_pull, data_push, sinks[s].scope, s) = {{}})
          => \A k \in ScopedRows(files, data_pull, sinks[s].scope) :
                ds_location(s) \in Avail(files, k)
                   => \A j \in ScopedRows(files, data_pull, sinks[s].scope) :
                         j[1] = k[1] => files[j].m_time <= files[k].m_time

\* C36: whenever a sink's push has succeeded for the File object (p, f) a worker
\* is pushing, so that the data_push row (s, p, f) is recorded next, the bytes
\* the sink has received for p have fingerprint f
C36_RecordedBytesMatch ==
    [][\A w \in Workers :
          (pc[w] = "push" /\ pc'[w] = "record")
             => sink_bytes'[w_sink[w]][w_file[w].path] = w_file[w].md5]_vars

(***************************************************************************)
(* resolve_delta_chain_from_db iteration by iteration: q_out holds the     *)
(* locals of the while loop and the number of SELECTs made so far.         *)
(***************************************************************************)
\* Mutant of LoopGuard: while True
LoopGuard_Always(chain, max_chain_length) == TRUE

\* while len(chain) < max_chain_length
LoopGuard(chain, max_chain_length) == Len(chain) < max_chain_length

Walking(current_md5, chain, visited, lookups) ==
    [status |-> "walking", current_md5 |-> current_md5, chain |-> chain,
     visited |-> visited, lookups |-> lookups, result |-> << >>]

Returned(st, lookups, result) ==
    [st EXCEPT !.status = result.status, !.lookups = lookups, !.result = result]

\* one test of the loop condition and, when it holds, one pass through the body
WalkIteration(tbl, st, max_chain_length) ==
    IF ~LoopGuard(st.chain, max_chain_length)
    THEN Returned(st, st.lookups, DeltaChainError("exceeded maximum length"))
    ELSE IF InVisited(st.current_md5, st.visited)
    THEN Returned(st, st.lookups, DeltaChainError("circular reference"))
    ELSE IF tbl[st.current_md5] = NoRow
    THEN Returned(st, st.lookups + 1, DeltaChainError("not found"))
    ELSE IF tbl[st.current_md5].parent_md5 = None
    THEN Returned(st, st.lookups + 1,
                  [status |-> "ok", root_md5 |-> st.current_md5,
                   chain |-> ChainOrder(st.chain)])
    ELSE Walking(tbl[st.current_md5].parent_md5,
                 Append(st.chain, ChainLink(tbl, st.current_md5)),
                 st.visited \cup {st.current_md5}, st.lookups + 1)

InitWalk ==
    /\ files = << >>
    /\ data_pull = {}
    /\ data_push = {}
    /\ sinks = SinkTable
    /\ produced = 0
    /\ runs = 0
    /\ WorkerInit
    /\ BytesInit
    /\ q_in \in ChainInputs
    /\ q_out = Walking(q_in.target_md5, << >>, {}, 0)

WalkStep ==
    /\ q_out.status = "walking"
    /\ q_out' = WalkIteration(q_in.tbl, q_out, q_in.max_chain_length)
    /\ UNCHANGED <<bytes_vars, store_vars, produced, runs, worker_vars, q_in>>

NextWalk == WalkStep

\* the function, once called, executes its loop
SpecWalk == InitWalk /\ [][NextWalk]_vars /\ WF_vars(WalkStep)

\* C37: on every table, cyclic ones and ones with missing rows included, the
\* walk makes at most max_chain_length lookups and ends, with a (root, chain)
\* result or a DeltaChainError
C37_TerminatesWithinBound ==
    /\ [](q_out.lookups <= q_in.max_chain_length)
    /\ <>(/\ q_out.status \in {"ok", "DeltaChainError"}
          /\ q_out.result = resolve_delta_chain_from_db(q_in.tbl, q_in.target_md5,
                                                        q_in.max_chain_length))

\* C37 witness: a walk round a cycle has ended with an error after exactly
\* max_chain_length lookups
C37_Witness ==
    /\ q_out.status = "DeltaChainError"
    /\ Revisits(q_in.tbl, q_in.target_md5)
    /\ q_out.lookups = q_in.max_chain_length
    /\ q_in.max_chain_length > 1

(***************************************************************************)
(* reconstruct_file_from_chain on chains that need not be sound: of the    *)
(* versions F1 <- F2 <- F3 any row may be missing, and a link may hold no  *)
(* delta, a delta that does not decode, parse or fit, or a computed delta, *)
(* under either delta_format or none.                                      *)
(***************************************************************************)
LinkDeltas ==
    {NoDelta} \cup StoredDeltas
      \cup {compute_delta(<<"a">>, <<"a", "a">>, hr) : hr \in BOOLEAN}
      \cup {compute_delta(<<"a", "a">>, <<"a", "b">>, hr) : hr \in BOOLEAN}

LinkRows(parent_md5) ==
    {NoRow} \cup [parent_md5 : {parent_md5}, delta : LinkDeltas,
                  delta_format : {"human_readable", "compressed", None}]

LinkTables ==
    {tbl \in [ChainMd5s -> {RootRow} \cup LinkRows("F1") \cup LinkRows("F2")] :
        /\ tbl["F1"] \in {RootRow, NoRow}
        /\ tbl["F2"] \in LinkRows("F1")
        /\ tbl["F3"] \in LinkRows("F2")}

LinkInputs ==
    [tbl : LinkTables, target_md5 : ChainMd5s, template_content : {<<"a">>, <<"b">>}]

InitLinks ==
    /\ files = << >>
    /\ data_pull = {}
    /\ data_push = {}
    /\ sinks = SinkTable
    /\ produced = 0
    /\ runs = 0
    /\ WorkerInit
    /\ BytesInit
    /\ q_in \in LinkInputs
    /\ q_out = << >>

ReconstructLinks ==
    /\ q_out = << >>
    /\ \E r \in reconstruct_file_from_chain(q_in.tbl, q_in.target_md5,
                      q_in.template_content, DefaultMaxChainLength) :
          q_out' = [stage |-> "reconstructed", result |-> r]
    /\ UNCHANGED <<bytes_vars, store_vars, produced, runs, worker_vars, q_in>>

NextLinks == ReconstructLinks

SpecLinks == InitLinks /\ [][NextLinks]_vars

\* the chain of the table of the state, root to target, when it resolves
Resolved == resolve_delta_chain_from_db(q_in.tbl, q_in.target_md5, DefaultMaxChainLength)

\* a fingerprint on the walk from the target has no row
RowMissing ==
    \E i \in WalkSteps :
       /\ WalkNode(q_in.tbl, q_in.target_md5, i) \in ChainMd5s
       /\ q_in.tbl[WalkNode(q_in.tbl, q_in.target_md5, i)] = NoRow

\* the contents the first n links of the chain can give from the template content
ContentsAfter(chain, n) ==
    {r.content : r \in {x \in ReconstructFrom(q_in.template_content, SubSeq(chain, 1, n), 1) :
                          x.status = "ok"}}

\* link k of the chain can fail to apply to what the links before it give
LinkFails(chain, k) ==
    \E c \in ContentsAfter(chain, k - 1) :
       \E r \in apply_delta(c, chain[k].delta, chain[k].delta_format = "human_readable") :
          r.status # "ok"

\* C38: reconstruct_file_from_chain ends in DeltaChainError when a fingerprint
\* on the walk has no row and, naming the link, when the first link that does
\* not apply holds no delta; it ends in DeltaPatchError naming the 1-based
\* position and the fingerprint of the link whose delta failed to apply; it
\* returns a content only when every row was there and every link applied
C38_NoPartialResult ==
    q_out # << >>
       => LET result == q_out.result
              chain == Resolved.chain
          IN  /\ result.status \in {"ok", "DeltaChainError", "DeltaPatchError"}
              /\ RowMissing => result = DeltaChainError("not found")
              /\ (Resolved.status = "ok" /\ \E i \in 1..Len(chain) : chain[i].delta = NoDelta)
                    => result.status # "ok"
              /\ (Resolved.status = "ok" /\ result.status = "DeltaChainError")
                    => \E k \in 1..Len(chain) :
                          /\ result = [status |-> "DeltaChainError",
                                       message |-> "Missing delta in chain",
                                       position |-> k, file_md5 |-> chain[k].file_md5]
                          /\ chain[k].delta = NoDelta
                          /\ \A j \in 1..(k - 1) : chain[j].delta # NoDelta
                          /\ ContentsAfter(chain, k - 1) # {}
              /\ result.status = "DeltaPatchError"
                    => /\ Resolved.status = "ok"
                       /\ result.position \in 1..Len(chain)
                       /\ result.file_md5 = chain[result.position].file_md5
                       /\ \A j \in 1..result.position : chain[j].delta # NoDelta
                       /\ LinkFails(chain, result.position)
              /\ result.status = "ok"
                    => /\ Resolved.status = "ok"
                       /\ \A i \in 1..Len(chain) : chain[i].delta # NoDelta
                       /\ result.content \in ContentsAfter(chain, Len(chain))

\* C38 witness: the first link applied and the second link's delta did not, and
\* the error names position 2 and the second link's fingerprint
C38_Witness ==
    /\ q_out # << >>
    /\ q_in.target_md5 = "F3"
    /\ q_out.result.status = "DeltaPatchError"
    /\ q_out.result.position = 2
    /\ q_out.result.file_md5 = "F3"
    /\ ContentsAfter(Resolved.chain, 1) = {<<"a", "a">>}

(***************************************************************************)
(* get_delta_chain_info on the same tables.                                *)
(***************************************************************************)
\* len(text): a header line "@@ -a,b +c,d @@\n", a diff line of mode, text and "\n"
RECURSIVE TextLen(_)
TextLen(lines) ==
    IF lines = << >> THEN 0
    ELSE (IF Head(lines).op = "@@" THEN 16 ELSE Len(Head(lines).text) + 2)
           + TextLen(Tail(lines))

\* len(delta.encode("utf-8")): the characters of a patch text; for the compact
\* form four characters per three bytes of the zlib stream, taken as the text
\* with the stream's header and checksum; four for the other stored strings
EncodedLen(delta) ==
    IF delta.enc = "text" THEN TextLen(delta.body)
    ELSE IF delta.enc = "b64zlib" THEN 4 * ((TextLen(delta.body) + 8 + 2) \div 3)
    ELSE 4

\* sum(len(link.get("delta", "").encode("utf-8")) for link in chain): the link
\* holds the key "delta" also when its value is None, so the default is not used
RECURSIVE SumDeltaSizes(_)
SumDeltaSizes(chain) ==
    IF chain = << >> THEN [status |-> "ok", total |-> 0]
    ELSE IF Head(chain).delta = NoDelta THEN [status |-> "AttributeError", total |-> 0]
    ELSE LET rest == SumDeltaSizes(Tail(chain))
         IN  IF rest.status # "ok" THEN rest
             ELSE [status |-> "ok", total |-> EncodedLen(Head(chain).delta) + rest.total]

get_delta_chain_info(tbl, target_md5, max_chain_length) ==
    LET resolved == resolve_delta_chain_from_db(tbl, target_md5, max_chain_length)
    IN  IF resolved.status # "ok" THEN resolved
        ELSE LET total_delta_size == SumDeltaSizes(resolved.chain)
             IN  IF total_delta_size.status # "ok"
                 THEN [status |-> "AttributeError"]
                 ELSE [status |-> "ok", root_md5 |-> resolved.root_md5,
                       chain_length |-> Len(resolved.chain), chain |-> resolved.chain,
                       total_delta_size |-> total_delta_size.total]

GetChainInfo ==
    /\ q_out = << >>
    /\ q_out' = [stage |-> "info",
                 result |-> get_delta_chain_info(q_in.tbl, q_in.target_md5,
                                                 DefaultMaxChainLength)]
    /\ UNCHANGED <<bytes_vars, store_vars, produced, runs, worker_vars, q_in>>

NextInfo == GetChainInfo

SpecInfo == InitLinks /\ [][NextInfo]_vars

\* the byte size of the stored delta of link i, nothing for a link without one
StoredSize(chain, i) ==
    IF chain[i].delta = NoDelta THEN 0 ELSE EncodedLen(chain[i].delta)

RECURSIVE SizeUpTo(_, _)
SizeUpTo(chain, n) == IF n = 0 THEN 0 ELSE SizeUpTo(chain, n - 1) + StoredSize(chain, n)

LinkKinds == [human_readable : BOOLEAN, format_kept : BOOLEAN]

MixedInputs ==
    {[versions |-> v, links |-> l] :
        v \in {q \in DistinctChains : Len(q) >= 2},
        l \in UNION {[1..n -> LinkKinds] : n \in 1..MaxLinks}}

\* the rows of the stored chain, link i leading from version i to version i + 1
MixedChain(versions, links) ==
    [m \in {Md5Names[i] : i \in 1..Len(versions)} |->
        LET i == CHOOSE i \in 1..Len(versions) : Md5Names[i] = m
        IN  IF i = 1 THEN RootRow
            ELSE LET hr == links[i - 1].human_readable
                     metadata == create_file_metadata_with_delta(
                                     Md5Names[i - 1],
                                     compute_delta(versions[i - 1], versions[i], hr), hr)
                 IN  IF links[i - 1].format_kept THEN metadata
                     ELSE [metadata EXCEPT !.delta_format = None]]

InitMixed ==
    /\ files = << >>
    /\ data_pull = {}
    /\ data_push = {}
    /\ sinks = SinkTable
    /\ produced = 0
    /\ runs = 0
    /\ WorkerInit
    /\ BytesInit
    /\ q_in \in MixedInputs
    /\ Len(q_in.links) = Len(q_in.versions) - 1
    /\ q_out = << >>

StoreMixed ==
    /\ q_out = << >>
    /\ q_out' = [stage |-> "stored",
                 tbl |-> MixedChain(q_in.versions, q_in.links),
                 result |-> NoResult]
    /\ UNCHANGED <<bytes_vars, store_vars, produced, runs, worker_vars, q_in>>

ReconstructMixed ==
    /\ q_out # << >>
    /\ q_out.stage = "stored"
    /\ \E r \in reconstruct_file_from_chain(q_out.tbl, Md5Names[Len(q_in.versions)],
                      q_in.versions[1], DefaultMaxChainLength) :
          q_out' = [q_out EXCEPT !.stage = "reconstructed", !.result = r]
    /\ UNCHANGED <<bytes_vars, store_vars, produced, runs, worker_vars, q_in>>

NextMixed == StoreMixed \/ ReconstructMixed

SpecMixed == InitMixed /\ [][NextMixed]_vars

\* the links whose delta is a patch text and whose metadata lost its delta_format
TextWithoutFormat ==
    {i \in 1..Len(q_in.links) :
        q_in.links[i].human_readable /\ ~q_in.links[i].format_kept}

\* C40: every link is decoded by its own delta_format, a link without one as
\* compressed: a chain of links computed and stored by
\* create_file_metadata_with_delta(parent, compute_delta(A, B, hr), hr), hr
\* chosen link by link, reconstructs the target from the root content, also
\* when compressed links lost their delta_format; a patch text without
\* delta_format is decoded as compressed and fails at that link
C40_LinkFormatDecides ==
    (q_out # << >> /\ q_out.stage = "reconstructed")
       => IF TextWithoutFormat = {}
          THEN q_out.result = Ok(q_in.versions[Len(q_in.versions)])
          ELSE LET i == CHOOSE i \in TextWithoutFormat :
                           \A j \in TextWithoutFormat : i <= j
               IN  /\ q_out.result.status = "DeltaPatchError"
                   /\ q_out.result.position = i
                   /\ q_out.result.file_md5 = Md5Names[i + 1]

\* C40 witness: a chain of a human-readable link, a compressed link and a
\* compressed link without delta_format was reconstructed to its last version
C40_Witness ==
    /\ q_out # << >>
    /\ q_out.stage = "reconstructed"
    /\ Len(q_in.links) = 3
    /\ q_in.links[1] = [human_readable |-> TRUE, format_kept |-> TRUE]
    /\ q_in.links[2] = [human_readable |-> FALSE, format_kept |-> TRUE]
    /\ q_in.links[3] = [human_readable |-> FALSE, format_kept |-> FALSE]
    /\ q_out.tbl["F3"].delta_format = None
    /\ q_out.result = Ok(q_in.versions[4])
    /\ q_in.versions[4] # q_in.versions[1]

====
